---- MODULE Spec2Model ----
(***************************************************************************)
(* Model of the resilience primitives of lanai-infraestructure:            *)
(*   - CircuitBreaker  (src/src/resilience/mod.rs)                         *)
(*   - SagaOrchestrator (src/src/saga/mod.rs)                              *)
(*   - the rate limiter backends and their factory                         *)
(*                      (src/src/rate_limit/mod.rs)                        *)
(*                                                                         *)
(* CircuitBreaker::call and CircuitBreaker::reset are async functions that *)
(* take four tokio mutexes (state, failure_count, success_count,           *)
(* last_failure_time).  Every `lock().await` is a suspension point, so one *)
(* model step is: acquire one mutex, then run the code up to the next      *)
(* `lock().await`, the next `f().await` or the return.  Guards are dropped *)
(* at the end of their scope, which is always the end of the block or      *)
(* match arm, so locks are released together when the path returns.        *)
(***************************************************************************)
EXTENDS Integers, Sequences, FiniteSets, TLC

\* ---------------------------------------------------------------- bounds
MaxCallers == 2      \* tasks sharing one breaker in the concurrent specification
MaxThreshold == 2    \* failure_threshold and success_threshold range over 0..MaxThreshold
MaxTimeout == 2      \* reset_timeout ranges over 0..MaxTimeout clock units
MaxTime == 3         \* the clock runs from 0 to MaxTime
MaxCalls == 4        \* invocations (call or reset) started by the single task of a sequential run
MaxConcurrentCalls == 3  \* invocations started, in total, by the tasks of a concurrent run
MaxSteps == 3        \* steps added to one SagaOrchestrator
MaxRuns == 2         \* run() invocations on one SagaOrchestrator
MaxCheckers == 2     \* tasks or processes checking one limiter concurrently
MaxLimit == 2        \* max_requests ranges over 0..MaxLimit
MaxWindow == 1       \* window_seconds ranges over 0..MaxWindow
TickMs == 500        \* milliseconds the wall clock advances in one step
MaxWallMs == 2000    \* the wall clock runs from 0 to MaxWallMs
MaxChecks == 3       \* is_allowed calls started by the single task of a sequential run
MaxConcurrentChecks == 3  \* is_allowed calls started, in total, in a concurrent run

\* The success threshold CircuitBreaker::new installs.
DefaultSuccessThreshold == 2

\* window_secs * 1000: the milliseconds of one second of window.
MillisPerSecond == 1000

VARIABLES
    \* CircuitBreaker fields
    state,              \* CircuitState: "Closed" | "Open" | "HalfOpen"
    failure_count,      \* u32
    success_count,      \* u32
    last_failure_time,  \* Option<Instant>: <<>> is None, <<t>> is Some(t)
    failure_threshold,  \* u32, fixed at construction
    success_threshold,  \* u32, fixed at construction
    reset_timeout,      \* Duration, fixed at construction
    \* environment and tasks
    now,                \* the monotonic clock Instant::now() reads
    lock,               \* mutex name -> holding task, 0 when free
    callers,            \* the tasks that use the breaker
    pc,                 \* task -> its position in call() / reset()
    op_result,          \* task -> what the wrapped operation returned
    result,             \* task -> what its last invocation returned
    invoked,            \* task -> times the wrapped operation was invoked by its current/last call
    ncalls,             \* invocations (call or reset) started so far
    \* history of the breaker's use, for stating the properties
    seen,               \* task -> the CircuitState its invocation found on first locking state
    base,               \* "new" / "reset": since construction / since the last completed reset()
                        \* every completed invocation was a call whose operation failed; else "none"
    fail_run,           \* the number of those failed calls, 0 when base is "none"
    probe_oks,          \* calls that found the circuit Open or HalfOpen and returned Ok, completed
                        \* in a row up to now
    streak,             \* calls whose operation failed, completed in a row up to now (resets,
                        \* rejected and cancelled calls leave it as it is)
    cleared,            \* the value streak had when the last call admitted in Closed returned Ok
    opened_at,          \* <<t>> once the state has changed to Open, t the instant recorded by
                        \* the call that last changed it (a write of Open over Open is no
                        \* change); <<>> from that change until its instant is recorded
    \* SagaOrchestrator and its runs
    steps,              \* SagaOrchestrator.steps: the steps, named 1..Len(steps) in insertion order
    run_pc,             \* run -> its position in run() / compensate()
    run_i,              \* run -> index of the step the for loop of run() is at
    executed_steps,     \* run -> the local Vec executed_steps
    comp_iter,          \* run -> what executed_steps.into_iter().rev() has not yielded yet
    comp_step,          \* run -> the step the for loop of compensate() is at, 0 outside it
    context,            \* run -> the Context, as the sequence of step calls applied to it
    run_err,            \* run -> the error e bound by the Err(e) arm
    run_result,         \* run -> what run() returned
    \* rate limiter: environment, factory, backends
    redis_url,          \* the REDIS_URL variable: "absent", "invalid" (not a Redis URL) or "valid"
    store_up,           \* whether the Redis server answers
    backend,            \* what create_limiter returned: "redis" | "memory", "none" before it ran
    wall_ms,            \* the wall clock chrono::Utc::now().timestamp_millis() reads
    max_requests,       \* RateLimitMiddleware.max_requests, the limit of every check
    window_seconds,     \* RateLimitMiddleware.window_seconds, the window of every check
    zset,               \* Redis: key -> the sorted set rate_limit:<key> (member = score = timestamp)
    expiry,             \* Redis: key -> <<deadline in ms>> of the key's TTL, <<>> without one
    mem_store,          \* InMemoryRateLimiter.store: key -> Vec of timestamps
    checkers,           \* the tasks (or processes, for Redis) that call is_allowed
    chk,                \* checker -> its is_allowed call: position, key, now, result, failures
    nchecks,            \* is_allowed calls started so far
    \* history of the limiter's use, for stating the properties
    built_up,           \* whether the Redis server answered when create_limiter ran
    allowed_at,         \* key -> the 'now' of the checks on it that returned true, in order
    faulted             \* whether a Redis operation of some check has failed

bvars == <<state, failure_count, success_count, last_failure_time,
           failure_threshold, success_threshold, reset_timeout, opened_at,
           now, lock, callers, pc, op_result, result, invoked, ncalls,
           seen, base, fail_run, probe_oks, streak, cleared>>

svars == <<steps, run_pc, run_i, executed_steps, comp_iter, comp_step, context, run_err, run_result>>

lvars == <<redis_url, store_up, backend, wall_ms, max_requests, window_seconds,
           zset, expiry, mem_store, checkers, chk, nchecks, built_up, allowed_at, faulted>>

vars == <<bvars, svars, lvars>>

\* ------------------------------------------------------------ data types
CircuitState == {"Closed", "Open", "HalfOpen"}

Locks == {"state", "failure_count", "success_count", "last_failure_time"}

Tasks == 1..MaxCallers

\* The values and errors a wrapped operation can produce.
Values == {"a", "b"}

NoResult == [kind |-> "None", val |-> "-"]

Res(k, v) == [kind |-> k, val |-> v]

\* Instant::elapsed() of a recorded instant.
elapsed(instant) == now - instant

\* Variant of timeout_elapsed: the probe is allowed only after more than reset_timeout.
timeout_elapsed_strict(instant) == elapsed(instant) > reset_timeout

\* Variant of timeout_elapsed: the comparison is written the wrong way round.
timeout_elapsed_inverted(instant) == elapsed(instant) <= reset_timeout

\* line 132: instant.elapsed() >= self.reset_timeout
timeout_elapsed(instant) == elapsed(instant) >= reset_timeout

\* Variant of threshold_reached: the circuit opens one failure late.
threshold_reached_strict(failures) == failures > failure_threshold

\* line 187: *failures >= self.failure_threshold
threshold_reached(failures) == failures >= failure_threshold

\* Variant of successes_reached: the circuit closes one success late.
successes_reached_strict(successes) == successes > success_threshold

\* line 156: *success_count >= self.success_threshold
successes_reached(successes) == successes >= success_threshold

\* tokio::sync::Mutex::lock: the mutex is granted only when free.
CanLock(l) == lock[l] = 0

Acquire(l, c) == [lock EXCEPT ![l] = c]

\* Dropping every guard task c holds (end of scope, return or unwinding).
ReleaseAll(c) == [l \in Locks |-> IF lock[l] = c THEN 0 ELSE lock[l]]

\* Acquire l, then drop every guard of c, l included.
AcquireThenReleaseAll(l, c) == [k \in Locks |-> IF lock[k] = c \/ k = l THEN 0 ELSE lock[k]]

\* One task uses the breaker: its invocations follow one another.  The history
\* counters base, fail_run, probe_oks, streak and cleared are kept for such runs only.
Sequential == Cardinality(callers) = 1

\* The values and errors the wrapped operations of a run produce.  The breaker never
\* looks at them, so the concurrent runs use a single one.
OpValues == IF Sequential THEN Values ELSE {"a"}

\* The invocations a run of the model may start.
CallBudget == IF Sequential THEN MaxCalls ELSE MaxConcurrentCalls

Runs == 1..MaxRuns

\* A call of a step method, as the Context records it: execute (ok: it returned
\* Ok) or compensate (ok: it returned, FALSE: it panicked), and the error of Err(e).
StepCall(o, st, k, e) == [op |-> o, step |-> st, ok |-> k, err |-> e]

SagaRes(k, e, cx) == [kind |-> k, err |-> e, ctx |-> cx]

NoSagaResult == SagaRes("None", "-", <<>>)

\* SagaOrchestrator::new(), no run started.
SagaNew ==
    /\ steps = <<>>
    /\ run_pc = [r \in Runs |-> "idle"]
    /\ run_i = [r \in Runs |-> 0]
    /\ executed_steps = [r \in Runs |-> <<>>]
    /\ comp_iter = [r \in Runs |-> <<>>]
    /\ comp_step = [r \in Runs |-> 0]
    /\ context = [r \in Runs |-> <<>>]
    /\ run_err = [r \in Runs |-> "-"]
    /\ run_result = [r \in Runs |-> NoSagaResult]

\* The mutex the next step of task c awaits ("none": its next step takes no lock):
\* the lock().await at lines 128, 130, 135, 150, 153, 160, 169, 176, 179, 184/189,
\* 202, 204, 206.
WantsLock(c) ==
    CASE pc[c] \in {"admit_state", "ok_state", "err_state", "reset_state"} -> "state"
      [] pc[c] \in {"admit_last_failure", "err_last_failure"} -> "last_failure_time"
      [] pc[c] \in {"admit_success_count", "ok_success_count", "reset_success_count"}
            -> "success_count"
      [] pc[c] \in {"ok_close", "ok_reset_failures", "err_failure_count",
                    "reset_failure_count"} -> "failure_count"
      [] OTHER -> "none"

\* ------------------------------------------------------------- construction
\* CircuitBreaker::new(failure_threshold, reset_timeout), optionally followed by
\* with_success_threshold(threshold), used by the tasks in cs.
InitBreaker(cs) ==
    /\ state = "Closed"
    /\ failure_count = 0
    /\ success_count = 0
    /\ last_failure_time = <<>>
    /\ failure_threshold \in 0..MaxThreshold
    /\ success_threshold \in (0..MaxThreshold) \cup {DefaultSuccessThreshold}
    /\ reset_timeout \in 0..MaxTimeout
    /\ now = 0
    /\ lock = [l \in Locks |-> 0]
    /\ callers = cs
    /\ pc = [c \in Tasks |-> "idle"]
    /\ op_result = [c \in Tasks |-> NoResult]
    /\ result = [c \in Tasks |-> NoResult]
    /\ invoked = [c \in Tasks |-> 0]
    /\ ncalls = 0
    /\ seen = [c \in Tasks |-> "-"]
    /\ base = "new"
    /\ fail_run = 0
    /\ probe_oks = 0
    /\ streak = 0
    /\ cleared = 0
    /\ opened_at = <<>>
    /\ SagaNew

\* A task returns from call() / reset() with result r.
Return(c, r) ==
    /\ pc' = [pc EXCEPT ![c] = "idle"]
    /\ result' = [result EXCEPT ![c] = r]
    /\ IF Sequential
       THEN /\ base' = IF r.kind = "Reset" THEN "reset"
                       ELSE IF r.kind = "OperationError" THEN base ELSE "none"
            /\ fail_run' = IF r.kind = "OperationError" /\ base # "none"
                           THEN fail_run + 1 ELSE 0
            /\ probe_oks' = IF r.kind = "Ok" /\ seen[c] \in {"Open", "HalfOpen"}
                            THEN probe_oks + 1
                            ELSE IF r.kind = "Cancelled" /\ seen[c] # "Open"
                            THEN probe_oks ELSE 0
            /\ streak' = IF r.kind = "OperationError" THEN streak + 1
                         ELSE IF r.kind = "Ok" THEN 0 ELSE streak
            /\ cleared' = IF r.kind = "Ok" /\ seen[c] = "Closed" THEN streak ELSE cleared
       ELSE UNCHANGED <<base, fail_run, probe_oks, streak, cleared>>

\* ------------------------------------------------------------------ call()
\* A task enters call(f).
call_begin(c) ==
    /\ pc[c] = "idle"
    /\ ncalls < CallBudget
    /\ ncalls' = ncalls + 1
    /\ pc' = [pc EXCEPT ![c] = "admit_state"]
    /\ result' = [result EXCEPT ![c] = NoResult]
    /\ op_result' = [op_result EXCEPT ![c] = NoResult]
    /\ invoked' = [invoked EXCEPT ![c] = 0]
    /\ seen' = [seen EXCEPT ![c] = "-"]
    /\ UNCHANGED <<state, failure_count, success_count, last_failure_time,
                   failure_threshold, success_threshold, reset_timeout, opened_at,
                   now, lock, callers, base, fail_run, probe_oks, streak, cleared>>
    /\ UNCHANGED <<svars, lvars>>

\* Variant of call_admit_state: a call admitted in HalfOpen keeps the state lock while
\* its operation runs.
call_admit_state_serial(c) ==
    /\ pc[c] = "admit_state"
    /\ CanLock("state")
    /\ IF state = "Open"
       THEN /\ lock' = Acquire("state", c)
            /\ pc' = [pc EXCEPT ![c] = "admit_last_failure"]
       ELSE /\ lock' = IF state = "HalfOpen" THEN Acquire("state", c) ELSE lock
            /\ pc' = [pc EXCEPT ![c] = "run"]
    /\ seen' = [seen EXCEPT ![c] = state]
    /\ UNCHANGED <<state, failure_count, success_count, last_failure_time,
                   failure_threshold, success_threshold, reset_timeout, opened_at,
                   now, callers, op_result, result, invoked, ncalls, base, fail_run, probe_oks, streak, cleared>>
    /\ UNCHANGED <<svars, lvars>>

\* lines 128-129, 144-145: lock state; when it is not Open the block ends.
call_admit_state(c) ==
    /\ pc[c] = "admit_state"
    /\ CanLock("state")
    /\ IF state = "Open"
       THEN /\ lock' = Acquire("state", c)
            /\ pc' = [pc EXCEPT ![c] = "admit_last_failure"]
       ELSE /\ lock' = lock
            /\ pc' = [pc EXCEPT ![c] = "run"]
    /\ seen' = [seen EXCEPT ![c] = state]
    /\ UNCHANGED <<state, failure_count, success_count, last_failure_time,
                   failure_threshold, success_threshold, reset_timeout, opened_at,
                   now, callers, op_result, result, invoked, ncalls, base, fail_run, probe_oks, streak, cleared>>
    /\ UNCHANGED <<svars, lvars>>

\* Variant of call_admit_last_failure: an elapsed timeout closes the circuit at once.
call_admit_last_failure_closes(c) ==
    /\ pc[c] = "admit_last_failure"
    /\ CanLock("last_failure_time")
    /\ IF last_failure_time = <<>>
       THEN /\ lock' = ReleaseAll(c)
            /\ pc' = [pc EXCEPT ![c] = "run"]
            /\ state' = state
       ELSE IF timeout_elapsed(last_failure_time[1])
       THEN /\ lock' = Acquire("last_failure_time", c)
            /\ state' = "Closed"
            /\ pc' = [pc EXCEPT ![c] = "admit_success_count"]
       ELSE /\ lock' = Acquire("last_failure_time", c)
            /\ state' = state
            /\ pc' = [pc EXCEPT ![c] = "reject"]
    /\ UNCHANGED <<failure_count, success_count, last_failure_time,
                   failure_threshold, success_threshold, reset_timeout, opened_at,
                   now, callers, op_result, result, invoked, ncalls, seen, base, fail_run, probe_oks, streak, cleared>>
    /\ UNCHANGED <<svars, lvars>>

\* lines 130-133, 138, 143: lock last_failure_time and compare the elapsed time.
call_admit_last_failure(c) ==
    /\ pc[c] = "admit_last_failure"
    /\ CanLock("last_failure_time")
    /\ IF last_failure_time = <<>>
       THEN /\ lock' = ReleaseAll(c)
            /\ pc' = [pc EXCEPT ![c] = "run"]
            /\ state' = state
       ELSE IF timeout_elapsed(last_failure_time[1])
       THEN /\ lock' = Acquire("last_failure_time", c)
            /\ state' = "HalfOpen"
            /\ pc' = [pc EXCEPT ![c] = "admit_success_count"]
       ELSE /\ lock' = Acquire("last_failure_time", c)
            /\ state' = state
            /\ pc' = [pc EXCEPT ![c] = "reject"]
    /\ UNCHANGED <<failure_count, success_count, last_failure_time,
                   failure_threshold, success_threshold, reset_timeout, opened_at,
                   now, callers, op_result, result, invoked, ncalls, seen, base, fail_run, probe_oks, streak, cleared>>
    /\ UNCHANGED <<svars, lvars>>

\* Variant of call_admit_success_count: the count of the earlier episode is kept.
call_admit_success_count_kept(c) ==
    /\ pc[c] = "admit_success_count"
    /\ CanLock("success_count")
    /\ lock' = AcquireThenReleaseAll("success_count", c)
    /\ pc' = [pc EXCEPT ![c] = "run"]
    /\ UNCHANGED <<state, failure_count, success_count, last_failure_time,
                   failure_threshold, success_threshold, reset_timeout, opened_at,
                   now, callers, op_result, result, invoked, ncalls, seen, base, fail_run, probe_oks, streak, cleared>>
    /\ UNCHANGED <<svars, lvars>>

\* lines 135-137, 144-145: reset success_count for the HalfOpen episode.
call_admit_success_count(c) ==
    /\ pc[c] = "admit_success_count"
    /\ CanLock("success_count")
    /\ success_count' = 0
    /\ lock' = AcquireThenReleaseAll("success_count", c)
    /\ pc' = [pc EXCEPT ![c] = "run"]
    /\ UNCHANGED <<state, failure_count, last_failure_time,
                   failure_threshold, success_threshold, reset_timeout, opened_at,
                   now, callers, op_result, result, invoked, ncalls, seen, base, fail_run, probe_oks, streak, cleared>>
    /\ UNCHANGED <<svars, lvars>>

\* lines 139-141: the rejection message reads instant.elapsed() a second time and
\* subtracts it from reset_timeout; Duration's Sub panics when the result would be
\* negative.  The unwinding drops the guards.
call_reject(c) ==
    /\ pc[c] = "reject"
    /\ lock' = ReleaseAll(c)
    /\ IF reset_timeout - elapsed(last_failure_time[1]) < 0
       THEN Return(c, Res("Panic", "-"))
       ELSE Return(c, Res("CircuitOpen", "-"))
    /\ UNCHANGED <<state, failure_count, success_count, last_failure_time,
                   failure_threshold, success_threshold, reset_timeout, opened_at,
                   now, callers, op_result, invoked, ncalls, seen>>
    /\ UNCHANGED <<svars, lvars>>

\* line 148: f() is called; no breaker lock is held.
call_invoke(c) ==
    /\ pc[c] = "run"
    /\ invoked' = [invoked EXCEPT ![c] = @ + 1]
    /\ pc' = [pc EXCEPT ![c] = "in_op"]
    /\ UNCHANGED <<state, failure_count, success_count, last_failure_time,
                   failure_threshold, success_threshold, reset_timeout, opened_at,
                   now, lock, callers, op_result, result, ncalls, seen, base, fail_run, probe_oks, streak, cleared>>
    /\ UNCHANGED <<svars, lvars>>

\* Variant of call_op_returns: a failed operation is retried once inside call().
call_op_returns_retry(c) ==
    /\ pc[c] = "in_op"
    /\ \E k \in {"Ok", "Err"}, v \in OpValues :
         /\ op_result' = [op_result EXCEPT ![c] = Res(k, v)]
         /\ pc' = [pc EXCEPT ![c] = IF k = "Ok" THEN "ok_state"
                                    ELSE IF invoked[c] < 2 THEN "run"
                                    ELSE "err_failure_count"]
    /\ UNCHANGED <<state, failure_count, success_count, last_failure_time,
                   failure_threshold, success_threshold, reset_timeout, opened_at,
                   now, lock, callers, result, invoked, ncalls, seen, base, fail_run, probe_oks, streak, cleared>>
    /\ UNCHANGED <<svars, lvars>>

\* line 148: f().await completes with Ok(v) or Err(v).
call_op_returns(c) ==
    /\ pc[c] = "in_op"
    /\ \E k \in {"Ok", "Err"}, v \in OpValues :
         /\ op_result' = [op_result EXCEPT ![c] = Res(k, v)]
         /\ pc' = [pc EXCEPT ![c] = IF k = "Ok" THEN "ok_state" ELSE "err_failure_count"]
    /\ UNCHANGED <<state, failure_count, success_count, last_failure_time,
                   failure_threshold, success_threshold, reset_timeout, opened_at,
                   now, lock, callers, result, invoked, ncalls, seen, base, fail_run, probe_oks, streak, cleared>>
    /\ UNCHANGED <<svars, lvars>>

\* Variant of call_cancel: a call dropped during its operation is recorded as a
\* failure.
call_cancel_counts(c) ==
    /\ pc[c] = "in_op"
    /\ failure_count' = failure_count + 1
    /\ Return(c, Res("Cancelled", "-"))
    /\ UNCHANGED <<state, success_count, last_failure_time,
                   failure_threshold, success_threshold, reset_timeout, opened_at,
                   now, lock, callers, op_result, invoked, ncalls, seen>>
    /\ UNCHANGED <<svars, lvars>>

\* line 148: the future of call() is dropped while f().await is pending (the caller
\* was cancelled or timed out); no guard is alive there and nothing after line 148
\* runs.
call_cancel(c) ==
    /\ pc[c] = "in_op"
    /\ Return(c, Res("Cancelled", "-"))
    /\ UNCHANGED <<state, failure_count, success_count, last_failure_time,
                   failure_threshold, success_threshold, reset_timeout, opened_at,
                   now, lock, callers, op_result, invoked, ncalls, seen>>
    /\ UNCHANGED <<svars, lvars>>

\* Variant of call_ok_state: a success in HalfOpen is returned without being counted.
call_ok_state_uncounted(c) ==
    /\ pc[c] = "ok_state"
    /\ CanLock("state")
    /\ IF state = "Closed"
       THEN /\ lock' = Acquire("state", c)
            /\ pc' = [pc EXCEPT ![c] = "ok_reset_failures"]
            /\ UNCHANGED <<result, base, fail_run, probe_oks, streak, cleared>>
       ELSE /\ lock' = lock
            /\ Return(c, Res("Ok", op_result[c].val))
    /\ UNCHANGED <<state, failure_count, success_count, last_failure_time,
                   failure_threshold, success_threshold, reset_timeout, opened_at,
                   now, callers, op_result, invoked, ncalls, seen>>
    /\ UNCHANGED <<svars, lvars>>

\* lines 150-152, 167, 173: Ok arm, lock state and branch on it.
call_ok_state(c) ==
    /\ pc[c] = "ok_state"
    /\ CanLock("state")
    /\ IF state = "HalfOpen"
       THEN /\ lock' = Acquire("state", c)
            /\ pc' = [pc EXCEPT ![c] = "ok_success_count"]
            /\ UNCHANGED <<result, base, fail_run, probe_oks, streak, cleared>>
       ELSE IF state = "Closed"
       THEN /\ lock' = Acquire("state", c)
            /\ pc' = [pc EXCEPT ![c] = "ok_reset_failures"]
            /\ UNCHANGED <<result, base, fail_run, probe_oks, streak, cleared>>
       ELSE /\ lock' = lock
            /\ Return(c, Res("Ok", op_result[c].val))
    /\ UNCHANGED <<state, failure_count, success_count, last_failure_time,
                   failure_threshold, success_threshold, reset_timeout, opened_at,
                   now, callers, op_result, invoked, ncalls, seen>>
    /\ UNCHANGED <<svars, lvars>>

\* lines 153-159, 163-166, 173: count the probe success, close at the threshold.
call_ok_success_count(c) ==
    /\ pc[c] = "ok_success_count"
    /\ CanLock("success_count")
    /\ success_count' = success_count + 1
    /\ IF successes_reached(success_count + 1)
       THEN /\ state' = "Closed"
            /\ lock' = Acquire("success_count", c)
            /\ pc' = [pc EXCEPT ![c] = "ok_close"]
            /\ UNCHANGED <<result, base, fail_run, probe_oks, streak, cleared>>
       ELSE /\ state' = state
            /\ lock' = ReleaseAll(c)
            /\ Return(c, Res("Ok", op_result[c].val))
    /\ UNCHANGED <<failure_count, last_failure_time,
                   failure_threshold, success_threshold, reset_timeout, opened_at,
                   now, callers, op_result, invoked, ncalls, seen>>
    /\ UNCHANGED <<svars, lvars>>

\* lines 160-162, 173: closing, zero both counters.
call_ok_close(c) ==
    /\ pc[c] = "ok_close"
    /\ CanLock("failure_count")
    /\ failure_count' = 0
    /\ success_count' = 0
    /\ lock' = ReleaseAll(c)
    /\ Return(c, Res("Ok", op_result[c].val))
    /\ UNCHANGED <<state, last_failure_time,
                   failure_threshold, success_threshold, reset_timeout, opened_at,
                   now, callers, op_result, invoked, ncalls, seen>>
    /\ UNCHANGED <<svars, lvars>>

\* Variant of call_ok_reset_failures: a success in Closed leaves failure_count as it is.
call_ok_reset_failures_kept(c) ==
    /\ pc[c] = "ok_reset_failures"
    /\ CanLock("failure_count")
    /\ lock' = ReleaseAll(c)
    /\ Return(c, Res("Ok", op_result[c].val))
    /\ UNCHANGED <<state, failure_count, success_count, last_failure_time,
                   failure_threshold, success_threshold, reset_timeout, opened_at,
                   now, callers, op_result, invoked, ncalls, seen>>
    /\ UNCHANGED <<svars, lvars>>

\* lines 169-170, 173: success in Closed clears the failure streak.
call_ok_reset_failures(c) ==
    /\ pc[c] = "ok_reset_failures"
    /\ CanLock("failure_count")
    /\ failure_count' = 0
    /\ lock' = ReleaseAll(c)
    /\ Return(c, Res("Ok", op_result[c].val))
    /\ UNCHANGED <<state, success_count, last_failure_time,
                   failure_threshold, success_threshold, reset_timeout, opened_at,
                   now, callers, op_result, invoked, ncalls, seen>>
    /\ UNCHANGED <<svars, lvars>>

\* lines 176-177: Err arm, lock failure_count and increment it.
call_err_failure_count(c) ==
    /\ pc[c] = "err_failure_count"
    /\ CanLock("failure_count")
    /\ failure_count' = failure_count + 1
    /\ lock' = Acquire("failure_count", c)
    /\ pc' = [pc EXCEPT ![c] = "err_state"]
    /\ UNCHANGED <<state, success_count, last_failure_time,
                   failure_threshold, success_threshold, reset_timeout, opened_at,
                   now, callers, op_result, result, invoked, ncalls, seen, base, fail_run, probe_oks, streak, cleared>>
    /\ UNCHANGED <<svars, lvars>>

\* Variant of call_err_state: the circuit is opened without recording the instant.
call_err_state_unstamped(c) ==
    /\ pc[c] = "err_state"
    /\ CanLock("state")
    /\ state' = IF state = "HalfOpen" \/ threshold_reached(failure_count)
                THEN "Open" ELSE state
    /\ opened_at' = IF state' = "Open" /\ state # "Open" THEN <<>> ELSE opened_at
    /\ lock' = ReleaseAll(c)
    /\ Return(c, Res("OperationError", op_result[c].val))
    /\ UNCHANGED <<failure_count, success_count, last_failure_time,
                   failure_threshold, success_threshold, reset_timeout,
                   now, callers, op_result, invoked, ncalls, seen>>
    /\ UNCHANGED <<svars, lvars>>

\* lines 179-183, 187-188, 195: lock state; open from HalfOpen or at the threshold.
call_err_state(c) ==
    /\ pc[c] = "err_state"
    /\ CanLock("state")
    /\ IF state = "HalfOpen" \/ threshold_reached(failure_count)
       THEN /\ state' = "Open"
            /\ opened_at' = IF state = "Open" THEN opened_at ELSE <<>>
            /\ lock' = Acquire("state", c)
            /\ pc' = [pc EXCEPT ![c] = "err_last_failure"]
            /\ UNCHANGED <<result, base, fail_run, probe_oks, streak, cleared>>
       ELSE /\ state' = state
            /\ opened_at' = opened_at
            /\ lock' = ReleaseAll(c)
            /\ Return(c, Res("OperationError", op_result[c].val))
    /\ UNCHANGED <<failure_count, success_count, last_failure_time,
                   failure_threshold, success_threshold, reset_timeout,
                   now, callers, op_result, invoked, ncalls, seen>>
    /\ UNCHANGED <<svars, lvars>>

\* Variant of call_err_last_failure: the instant is recorded only when none is stored.
call_err_last_failure_once(c) ==
    /\ pc[c] = "err_last_failure"
    /\ CanLock("last_failure_time")
    /\ last_failure_time' = IF last_failure_time = <<>> THEN <<now>> ELSE last_failure_time
    /\ opened_at' = IF opened_at = <<>> THEN <<now>> ELSE opened_at
    /\ lock' = ReleaseAll(c)
    /\ Return(c, Res("OperationError", op_result[c].val))
    /\ UNCHANGED <<state, failure_count, success_count,
                   failure_threshold, success_threshold, reset_timeout,
                   now, callers, op_result, invoked, ncalls, seen>>
    /\ UNCHANGED <<svars, lvars>>

\* lines 184-185 / 189-190, 195: record the instant of the opening failure.
call_err_last_failure(c) ==
    /\ pc[c] = "err_last_failure"
    /\ CanLock("last_failure_time")
    /\ last_failure_time' = <<now>>
    /\ opened_at' = IF opened_at = <<>> THEN <<now>> ELSE opened_at
    /\ lock' = ReleaseAll(c)
    /\ Return(c, Res("OperationError", op_result[c].val))
    /\ UNCHANGED <<state, failure_count, success_count,
                   failure_threshold, success_threshold, reset_timeout,
                   now, callers, op_result, invoked, ncalls, seen>>
    /\ UNCHANGED <<svars, lvars>>

\* ----------------------------------------------------------------- reset()
reset_begin(c) ==
    /\ pc[c] = "idle"
    /\ ncalls < CallBudget
    /\ ncalls' = ncalls + 1
    /\ pc' = [pc EXCEPT ![c] = "reset_state"]
    /\ result' = [result EXCEPT ![c] = NoResult]
    /\ op_result' = [op_result EXCEPT ![c] = NoResult]
    /\ invoked' = [invoked EXCEPT ![c] = 0]
    /\ seen' = [seen EXCEPT ![c] = "-"]
    /\ UNCHANGED <<state, failure_count, success_count, last_failure_time,
                   failure_threshold, success_threshold, reset_timeout, opened_at,
                   now, lock, callers, base, fail_run, probe_oks, streak, cleared>>
    /\ UNCHANGED <<svars, lvars>>

\* lines 202-203
reset_state(c) ==
    /\ pc[c] = "reset_state"
    /\ CanLock("state")
    /\ state' = "Closed"
    /\ lock' = Acquire("state", c)
    /\ pc' = [pc EXCEPT ![c] = "reset_failure_count"]
    /\ seen' = [seen EXCEPT ![c] = state]
    /\ UNCHANGED <<failure_count, success_count, last_failure_time,
                   failure_threshold, success_threshold, reset_timeout, opened_at,
                   now, callers, op_result, result, invoked, ncalls, base, fail_run, probe_oks, streak, cleared>>
    /\ UNCHANGED <<svars, lvars>>

\* Variant of reset_failure_count: the lock is taken but the counter is not zeroed.
reset_failure_count_kept(c) ==
    /\ pc[c] = "reset_failure_count"
    /\ CanLock("failure_count")
    /\ failure_count' = failure_count
    /\ lock' = Acquire("failure_count", c)
    /\ pc' = [pc EXCEPT ![c] = "reset_success_count"]
    /\ UNCHANGED <<state, success_count, last_failure_time,
                   failure_threshold, success_threshold, reset_timeout, opened_at,
                   now, callers, op_result, result, invoked, ncalls, seen, base, fail_run, probe_oks, streak, cleared>>
    /\ UNCHANGED <<svars, lvars>>

\* lines 204-205
reset_failure_count(c) ==
    /\ pc[c] = "reset_failure_count"
    /\ CanLock("failure_count")
    /\ failure_count' = 0
    /\ lock' = Acquire("failure_count", c)
    /\ pc' = [pc EXCEPT ![c] = "reset_success_count"]
    /\ UNCHANGED <<state, success_count, last_failure_time,
                   failure_threshold, success_threshold, reset_timeout, opened_at,
                   now, callers, op_result, result, invoked, ncalls, seen, base, fail_run, probe_oks, streak, cleared>>
    /\ UNCHANGED <<svars, lvars>>

\* lines 206-209
reset_success_count(c) ==
    /\ pc[c] = "reset_success_count"
    /\ CanLock("success_count")
    /\ success_count' = 0
    /\ lock' = ReleaseAll(c)
    /\ Return(c, Res("Reset", "-"))
    /\ UNCHANGED <<state, failure_count, last_failure_time,
                   failure_threshold, success_threshold, reset_timeout, opened_at,
                   now, callers, op_result, invoked, ncalls, seen>>
    /\ UNCHANGED <<svars, lvars>>

\* ------------------------------------------------------------------- clock
Tick ==
    /\ now < MaxTime
    /\ now' = now + 1
    /\ UNCHANGED <<state, failure_count, success_count, last_failure_time,
                   failure_threshold, success_threshold, reset_timeout, opened_at,
                   lock, callers, pc, op_result, result, invoked, ncalls,
                   seen, base, fail_run, probe_oks, streak, cleared>>
    /\ UNCHANGED <<svars, lvars>>

\* ------------------------------------------------------- SagaOrchestrator
\* lines 27-29: add_step takes &mut self, so no run() borrows the orchestrator;
\* the steps are configured before the runs.
add_step ==
    /\ \A r \in Runs : run_pc[r] = "idle"
    /\ Len(steps) < MaxSteps
    /\ steps' = Append(steps, Len(steps) + 1)
    /\ UNCHANGED <<run_pc, run_i, executed_steps, comp_iter, comp_step, context,
                   run_err, run_result>>
    /\ UNCHANGED <<bvars, lvars>>

\* lines 31-33: run(context) starts with an empty executed_steps.
run_begin(r) ==
    /\ run_pc[r] = "idle"
    /\ run_pc' = [run_pc EXCEPT ![r] = "loop"]
    /\ run_i' = [run_i EXCEPT ![r] = 1]
    /\ executed_steps' = [executed_steps EXCEPT ![r] = <<>>]
    /\ context' = [context EXCEPT ![r] = <<>>]
    /\ UNCHANGED <<steps, comp_iter, comp_step, run_err, run_result>>
    /\ UNCHANGED <<bvars, lvars>>

\* lines 35-37: the loop takes the next step and calls its execute.
run_execute(r) ==
    /\ run_pc[r] = "loop"
    /\ run_i[r] <= Len(steps)
    /\ run_pc' = [run_pc EXCEPT ![r] = "executing"]
    /\ UNCHANGED <<steps, run_i, executed_steps, comp_iter, comp_step, context,
                   run_err, run_result>>
    /\ UNCHANGED <<bvars, lvars>>

\* lines 37-40: execute returned Ok: the step is pushed on executed_steps.
run_execute_ok(r) ==
    /\ run_pc[r] = "executing"
    /\ context' = [context EXCEPT ![r] = Append(@, StepCall("execute", steps[run_i[r]], TRUE, "-"))]
    /\ executed_steps' = [executed_steps EXCEPT ![r] = Append(@, steps[run_i[r]])]
    /\ run_i' = [run_i EXCEPT ![r] = @ + 1]
    /\ run_pc' = [run_pc EXCEPT ![r] = "loop"]
    /\ UNCHANGED <<steps, comp_iter, comp_step, run_err, run_result>>
    /\ UNCHANGED <<bvars, lvars>>

\* Variant of run_execute_err: the Err arm logs the failure and the loop goes on.
run_execute_err_continue(r) ==
    /\ run_pc[r] = "executing"
    /\ \E e \in Values :
         /\ context' = [context EXCEPT ![r] = Append(@, StepCall("execute", steps[run_i[r]], FALSE, e))]
         /\ run_err' = [run_err EXCEPT ![r] = e]
    /\ run_i' = [run_i EXCEPT ![r] = @ + 1]
    /\ run_pc' = [run_pc EXCEPT ![r] = "loop"]
    /\ UNCHANGED <<steps, executed_steps, comp_iter, comp_step, run_result>>
    /\ UNCHANGED <<bvars, lvars>>

\* Variant of run_execute_err: the failing step is pushed on executed_steps before
\* compensate() takes it.
run_execute_err_with_failed(r) ==
    /\ run_pc[r] = "executing"
    /\ \E e \in Values :
         /\ context' = [context EXCEPT ![r] = Append(@, StepCall("execute", steps[run_i[r]], FALSE, e))]
         /\ run_err' = [run_err EXCEPT ![r] = e]
    /\ comp_iter' = [comp_iter EXCEPT ![r] = Append(executed_steps[r], steps[run_i[r]])]
    /\ run_pc' = [run_pc EXCEPT ![r] = "compensate_loop"]
    /\ UNCHANGED <<steps, run_i, executed_steps, comp_step, run_result>>
    /\ UNCHANGED <<bvars, lvars>>

\* Variant of run_execute_err: executed_steps is kept in the orchestrator and shared
\* by its runs, so compensate() is handed the steps every run has executed.
run_execute_err_shared(r) ==
    /\ run_pc[r] = "executing"
    /\ \E e \in Values :
         /\ context' = [context EXCEPT ![r] = Append(@, StepCall("execute", steps[run_i[r]], FALSE, e))]
         /\ run_err' = [run_err EXCEPT ![r] = e]
    /\ comp_iter' = [comp_iter EXCEPT ![r] =
                        LET longest == CHOOSE q \in Runs :
                                \A o \in Runs : Len(executed_steps[o]) <= Len(executed_steps[q])
                        IN  executed_steps[longest]]
    /\ run_pc' = [run_pc EXCEPT ![r] = "compensate_loop"]
    /\ UNCHANGED <<steps, run_i, executed_steps, comp_step, run_result>>
    /\ UNCHANGED <<bvars, lvars>>

\* lines 37, 41-43, 53-54: execute returned Err(e): executed_steps moves into
\* compensate(), which iterates it reversed.
run_execute_err(r) ==
    /\ run_pc[r] = "executing"
    /\ \E e \in Values :
         /\ context' = [context EXCEPT ![r] = Append(@, StepCall("execute", steps[run_i[r]], FALSE, e))]
         /\ run_err' = [run_err EXCEPT ![r] = e]
    /\ comp_iter' = [comp_iter EXCEPT ![r] = executed_steps[r]]
    /\ run_pc' = [run_pc EXCEPT ![r] = "compensate_loop"]
    /\ UNCHANGED <<steps, run_i, executed_steps, comp_step, run_result>>
    /\ UNCHANGED <<bvars, lvars>>

\* Variant of run_compensate: the iterator is not reversed.
run_compensate_forward(r) ==
    /\ run_pc[r] = "compensate_loop"
    /\ comp_iter[r] # <<>>
    /\ comp_step' = [comp_step EXCEPT ![r] = Head(comp_iter[r])]
    /\ comp_iter' = [comp_iter EXCEPT ![r] = Tail(@)]
    /\ run_pc' = [run_pc EXCEPT ![r] = "compensating"]
    /\ UNCHANGED <<steps, run_i, executed_steps, context, run_err, run_result>>
    /\ UNCHANGED <<bvars, lvars>>

\* lines 54-56: rev() yields the last remaining step; its compensate is called.
run_compensate(r) ==
    /\ run_pc[r] = "compensate_loop"
    /\ comp_iter[r] # <<>>
    /\ comp_step' = [comp_step EXCEPT ![r] = comp_iter[r][Len(comp_iter[r])]]
    /\ comp_iter' = [comp_iter EXCEPT ![r] = SubSeq(@, 1, Len(@) - 1)]
    /\ run_pc' = [run_pc EXCEPT ![r] = "compensating"]
    /\ UNCHANGED <<steps, run_i, executed_steps, context, run_err, run_result>>
    /\ UNCHANGED <<bvars, lvars>>

\* line 56: compensate returned.
run_compensate_returns(r) ==
    /\ run_pc[r] = "compensating"
    /\ context' = [context EXCEPT ![r] = Append(@, StepCall("compensate", comp_step[r], TRUE, "-"))]
    /\ comp_step' = [comp_step EXCEPT ![r] = 0]
    /\ run_pc' = [run_pc EXCEPT ![r] = "compensate_loop"]
    /\ UNCHANGED <<steps, run_i, executed_steps, comp_iter, run_err, run_result>>
    /\ UNCHANGED <<bvars, lvars>>

\* line 56: compensate panicked; nothing in compensate() or run() catches the
\* unwinding, so the run ends without a return value.
run_compensate_panics(r) ==
    /\ run_pc[r] = "compensating"
    /\ context' = [context EXCEPT ![r] = Append(@, StepCall("compensate", comp_step[r], FALSE, "-"))]
    /\ comp_step' = [comp_step EXCEPT ![r] = 0]
    /\ run_pc' = [run_pc EXCEPT ![r] = "panicked"]
    /\ UNCHANGED <<steps, run_i, executed_steps, comp_iter, run_err, run_result>>
    /\ UNCHANGED <<bvars, lvars>>

\* Variant of run_return_err: run returns Err(e) without awaiting the rest of the
\* compensation.
run_return_err_early(r) ==
    /\ run_pc[r] = "compensate_loop"
    /\ run_result' = [run_result EXCEPT ![r] = SagaRes("Err", run_err[r], <<>>)]
    /\ run_pc' = [run_pc EXCEPT ![r] = "returned"]
    /\ UNCHANGED <<steps, run_i, executed_steps, comp_iter, comp_step, context, run_err>>
    /\ UNCHANGED <<bvars, lvars>>

\* Variant of run_return_err: run returns one fixed error for every failure.
run_return_err_generic(r) ==
    /\ run_pc[r] = "compensate_loop"
    /\ comp_iter[r] = <<>>
    /\ run_result' = [run_result EXCEPT ![r] = SagaRes("Err", "a", <<>>)]
    /\ run_pc' = [run_pc EXCEPT ![r] = "returned"]
    /\ UNCHANGED <<steps, run_i, executed_steps, comp_iter, comp_step, context, run_err>>
    /\ UNCHANGED <<bvars, lvars>>

\* lines 57-58, 44: the iterator is exhausted, compensate() returns, run returns Err(e).
run_return_err(r) ==
    /\ run_pc[r] = "compensate_loop"
    /\ comp_iter[r] = <<>>
    /\ run_result' = [run_result EXCEPT ![r] = SagaRes("Err", run_err[r], <<>>)]
    /\ run_pc' = [run_pc EXCEPT ![r] = "returned"]
    /\ UNCHANGED <<steps, run_i, executed_steps, comp_iter, comp_step, context, run_err>>
    /\ UNCHANGED <<bvars, lvars>>

\* Variant of run_return_ok: run returns the context it was given, not the one the
\* steps worked on.
run_return_ok_initial(r) ==
    /\ run_pc[r] = "loop"
    /\ run_i[r] > Len(steps)
    /\ run_result' = [run_result EXCEPT ![r] = SagaRes("Ok", "-", <<>>)]
    /\ run_pc' = [run_pc EXCEPT ![r] = "returned"]
    /\ UNCHANGED <<steps, run_i, executed_steps, comp_iter, comp_step, context, run_err>>
    /\ UNCHANGED <<bvars, lvars>>

\* lines 47-50: the loop is over, run returns Ok(context).
run_return_ok(r) ==
    /\ run_pc[r] = "loop"
    /\ run_i[r] > Len(steps)
    /\ run_result' = [run_result EXCEPT ![r] = SagaRes("Ok", "-", context[r])]
    /\ run_pc' = [run_pc EXCEPT ![r] = "returned"]
    /\ UNCHANGED <<steps, run_i, executed_steps, comp_iter, comp_step, context, run_err>>
    /\ UNCHANGED <<bvars, lvars>>

\* ------------------------------------------------------------ rate limiter
Checkers == 1..MaxCheckers

\* The keys the middleware builds from the requests.
Keys == {"k1", "k2"}

\* One task checks at a time.  The history allowed_at is kept for such runs only.
Uncontended == Cardinality(checkers) = 1

\* The keys checked in a run: concurrent runs contend for a single key.
CheckedKeys == IF Uncontended THEN Keys ELSE {"k1"}

\* The is_allowed calls a run of the model may start.
CheckBudget == IF Uncontended THEN MaxChecks ELSE MaxConcurrentChecks

\* An is_allowed call: pc is its position, now its local 'now', result what it
\* returned ("true" / "false", "-" before), failed the Redis operations that failed
\* in it, logged whether it wrote an error! line, recorded whether its timestamp
\* reached the store.
Check(p, k, t, r, f, lg, rec) ==
    [pc |-> p, key |-> k, now |-> t, result |-> r, failed |-> f, logged |-> lg, recorded |-> rec]

NoCheck == Check("idle", "-", 0, "-", {}, FALSE, FALSE)

\* rate_limit lines 47, 103: now - (window_secs * 1000) as i64
window_start(t) == t - window_seconds * MillisPerSecond

\* Variant of over_limit: a check is denied only above the limit.
over_limit_strict(count) == count > max_requests

\* rate_limit lines 67, 111: count >= limit
over_limit(count) == count >= max_requests

\* rate_limit line 109: history.retain(|&ts| ts > window_start)
retain(history, t) == SelectSeq(history, LAMBDA ts : ts > window_start(t))

\* rate_limit line 61: ZREMRANGEBYSCORE key -inf window_start removes the members
\* whose score is <= window_start; what is left of the sorted set.
zremrangebyscore(set, t) == {ts \in set : ~ (ts <= window_start(t))}

\* Variant of zcount: the range is written the wrong way round, ZCOUNT key -inf
\* window_start.
zcount_swapped(set, t) == Cardinality({ts \in set : ts <= window_start(t)})

\* rate_limit line 62: ZCOUNT key window_start +inf
zcount(set, t) == Cardinality({ts \in set : ts >= window_start(t)})

\* rate_limit lines 29-31: redis::Client::open(url) parses the URL and opens no
\* connection; it fails on what is not a Redis URL.
ClientOpen(url) == url = "valid"

\* Nothing built yet: the state before create_limiter, with the tasks in cs.
LimiterEnv(cs) ==
    /\ backend = "none"
    /\ built_up = FALSE
    /\ wall_ms = 0
    /\ zset = [k \in Keys |-> {}]
    /\ expiry = [k \in Keys |-> <<>>]
    /\ mem_store = [k \in Keys |-> <<>>]
    /\ checkers = cs
    /\ chk = [p \in Checkers |-> NoCheck]
    /\ nchecks = 0
    /\ allowed_at = [k \in Keys |-> <<>>]
    /\ faulted = FALSE

\* No rate limiter in the run.
NoLimiter ==
    /\ LimiterEnv({})
    /\ redis_url = "absent"
    /\ store_up = FALSE
    /\ max_requests = 0
    /\ window_seconds = 0

\* rate_limit lines 121-137: create_limiter returns the Redis backend when REDIS_URL
\* is set and Client::open accepts it, the in-memory backend otherwise.
create_limiter ==
    /\ backend = "none"
    /\ backend' = IF redis_url # "absent" /\ ClientOpen(redis_url) THEN "redis" ELSE "memory"
    /\ built_up' = store_up
    /\ UNCHANGED <<redis_url, store_up, wall_ms, max_requests, window_seconds,
                   zset, expiry, mem_store, checkers, chk, nchecks, allowed_at, faulted>>
    /\ UNCHANGED <<bvars, svars>>

\* is_allowed returns r from checker p, whose call read t as its time.  What the
\* call did (its time, failures, log line) is kept with the result in uncontended
\* runs only.
ReturnCheck(p, r, t, f, lg, rec) ==
    /\ chk' = [chk EXCEPT ![p] = IF Uncontended
                                  THEN Check("done", chk[p].key, t, r, f, lg, rec)
                                  ELSE Check("done", chk[p].key, 0, r, {}, FALSE, FALSE)]
    /\ faulted' = (faulted \/ f # {})
    /\ allowed_at' = IF Uncontended /\ r = "true"
                     THEN [allowed_at EXCEPT ![chk[p].key] = Append(@, t)]
                     ELSE allowed_at

\* rate_limit lines 101-103: InMemoryRateLimiter::is_allowed(key, limit, window_secs)
\* reads now, then awaits the write lock of the store.
mem_begin(p, k) ==
    /\ backend = "memory"
    /\ chk[p].pc \in {"idle", "done"}
    /\ nchecks < CheckBudget
    /\ nchecks' = nchecks + 1
    /\ chk' = [chk EXCEPT ![p] = Check("mem_lock", k, wall_ms, "-", {}, FALSE, FALSE)]
    /\ UNCHANGED <<redis_url, store_up, backend, wall_ms, max_requests, window_seconds,
                   zset, expiry, mem_store, checkers, built_up, allowed_at, faulted>>
    /\ UNCHANGED <<bvars, svars>>

\* Variant of mem_check: now is pushed before the length is compared with the limit.
mem_check_push_first(p) ==
    /\ chk[p].pc = "mem_lock"
    /\ LET k == chk[p].key
           history == retain(mem_store[k], chk[p].now)
       IN  /\ mem_store' = [mem_store EXCEPT ![k] = Append(history, chk[p].now)]
           /\ IF over_limit(Len(history))
              THEN ReturnCheck(p, "false", chk[p].now, {}, FALSE, FALSE)
              ELSE ReturnCheck(p, "true", chk[p].now, {}, FALSE, TRUE)
    /\ UNCHANGED <<redis_url, store_up, backend, wall_ms, max_requests, window_seconds,
                   zset, expiry, checkers, nchecks, built_up>>
    /\ UNCHANGED <<bvars, svars>>

\* Variant of mem_check: the purge runs over the history of every key.
mem_check_purge_all(p) ==
    /\ chk[p].pc = "mem_lock"
    /\ LET k == chk[p].key
           history == retain(mem_store[k], chk[p].now)
           purged == [q \in Keys |-> retain(mem_store[q], chk[p].now)]
       IN  IF over_limit(Len(history))
           THEN /\ mem_store' = purged
                /\ ReturnCheck(p, "false", chk[p].now, {}, FALSE, FALSE)
           ELSE /\ mem_store' = [purged EXCEPT ![k] = Append(history, chk[p].now)]
                /\ ReturnCheck(p, "true", chk[p].now, {}, FALSE, TRUE)
    /\ UNCHANGED <<redis_url, store_up, backend, wall_ms, max_requests, window_seconds,
                   zset, expiry, checkers, nchecks, built_up>>
    /\ UNCHANGED <<bvars, svars>>

\* rate_limit lines 105-116: under the write lock, with no await in between: purge,
\* count, and push now unless the limit is reached.
mem_check(p) ==
    /\ chk[p].pc = "mem_lock"
    /\ LET k == chk[p].key
           history == retain(mem_store[k], chk[p].now)
       IN  IF over_limit(Len(history))
           THEN /\ mem_store' = [mem_store EXCEPT ![k] = history]
                /\ ReturnCheck(p, "false", chk[p].now, {}, FALSE, FALSE)
           ELSE /\ mem_store' = [mem_store EXCEPT ![k] = Append(history, chk[p].now)]
                /\ ReturnCheck(p, "true", chk[p].now, {}, FALSE, TRUE)
    /\ UNCHANGED <<redis_url, store_up, backend, wall_ms, max_requests, window_seconds,
                   zset, expiry, checkers, nchecks, built_up>>
    /\ UNCHANGED <<bvars, svars>>

\* rate_limit lines 37-38: RedisRateLimiter::is_allowed(key, limit, window_secs)
\* awaits a new connection.
redis_begin(p, k) ==
    /\ backend = "redis"
    /\ chk[p].pc \in {"idle", "done"}
    /\ nchecks < CheckBudget
    /\ nchecks' = nchecks + 1
    /\ chk' = [chk EXCEPT ![p] = Check("connect", k, 0, "-", {}, FALSE, FALSE)]
    /\ UNCHANGED <<redis_url, store_up, backend, wall_ms, max_requests, window_seconds,
                   zset, expiry, mem_store, checkers, built_up, allowed_at, faulted>>
    /\ UNCHANGED <<bvars, svars>>

\* rate_limit lines 38-48, 59-63: the connection is refused (logged, true is
\* returned) or made; then now is read and the atomic pipeline is sent.
redis_connect(p) ==
    /\ chk[p].pc = "connect"
    /\ IF store_up
       THEN /\ chk' = [chk EXCEPT ![p].pc = "pipeline", ![p].now = wall_ms]
            /\ UNCHANGED <<allowed_at, faulted>>
       ELSE ReturnCheck(p, "true", wall_ms, {"connect"}, TRUE, FALSE)
    /\ UNCHANGED <<redis_url, store_up, backend, wall_ms, max_requests, window_seconds,
                   zset, expiry, mem_store, checkers, nchecks, built_up>>
    /\ UNCHANGED <<bvars, svars>>

\* Variant of redis_pipeline: a failed pipeline denies the request.
redis_pipeline_fail_closed(p) ==
    /\ chk[p].pc = "pipeline"
    /\ LET k == chk[p].key
           kept == zremrangebyscore(zset[k], chk[p].now)
       IN  IF store_up
           THEN /\ zset' = [zset EXCEPT ![k] = kept]
                /\ expiry' = [expiry EXCEPT ![k] = IF kept = {} THEN <<>> ELSE @]
                /\ IF over_limit(zcount(kept, chk[p].now))
                   THEN ReturnCheck(p, "false", chk[p].now, {}, FALSE, FALSE)
                   ELSE /\ chk' = [chk EXCEPT ![p].pc = "zadd"]
                        /\ UNCHANGED <<allowed_at, faulted>>
           ELSE /\ ReturnCheck(p, "false", chk[p].now, {"pipeline"}, TRUE, FALSE)
                /\ UNCHANGED <<zset, expiry>>
    /\ UNCHANGED <<redis_url, store_up, backend, wall_ms, max_requests, window_seconds,
                   mem_store, checkers, nchecks, built_up>>
    /\ UNCHANGED <<bvars, svars>>

\* Variant of redis_pipeline: a denied check refreshes the expiry of its key.
redis_pipeline_denied_refresh(p) ==
    /\ chk[p].pc = "pipeline"
    /\ LET k == chk[p].key
           kept == zremrangebyscore(zset[k], chk[p].now)
       IN  IF store_up
           THEN /\ zset' = [zset EXCEPT ![k] = kept]
                /\ IF over_limit(zcount(kept, chk[p].now))
                   THEN /\ expiry' = [expiry EXCEPT ![k] =
                                         IF kept = {} THEN <<>>
                                         ELSE <<wall_ms + window_seconds * MillisPerSecond>>]
                        /\ ReturnCheck(p, "false", chk[p].now, {}, FALSE, FALSE)
                   ELSE /\ expiry' = [expiry EXCEPT ![k] = IF kept = {} THEN <<>> ELSE @]
                        /\ chk' = [chk EXCEPT ![p].pc = "zadd"]
                        /\ UNCHANGED <<allowed_at, faulted>>
           ELSE /\ ReturnCheck(p, "true", chk[p].now, {"pipeline"}, TRUE, FALSE)
                /\ UNCHANGED <<zset, expiry>>
    /\ UNCHANGED <<redis_url, store_up, backend, wall_ms, max_requests, window_seconds,
                   mem_store, checkers, nchecks, built_up>>
    /\ UNCHANGED <<bvars, svars>>

\* rate_limit lines 59-69, 77-80: the MULTI/EXEC pipeline removes the members up to
\* window_start (a sorted set left empty is deleted with its TTL) and counts the
\* rest in one step; count >= limit returns false.  A pipeline that fails is logged
\* and true is returned.
redis_pipeline(p) ==
    /\ chk[p].pc = "pipeline"
    /\ LET k == chk[p].key
           kept == zremrangebyscore(zset[k], chk[p].now)
       IN  IF store_up
           THEN /\ zset' = [zset EXCEPT ![k] = kept]
                /\ expiry' = [expiry EXCEPT ![k] = IF kept = {} THEN <<>> ELSE @]
                /\ IF over_limit(zcount(kept, chk[p].now))
                   THEN ReturnCheck(p, "false", chk[p].now, {}, FALSE, FALSE)
                   ELSE /\ chk' = [chk EXCEPT ![p].pc = "zadd"]
                        /\ UNCHANGED <<allowed_at, faulted>>
           ELSE /\ ReturnCheck(p, "true", chk[p].now, {"pipeline"}, TRUE, FALSE)
                /\ UNCHANGED <<zset, expiry>>
    /\ UNCHANGED <<redis_url, store_up, backend, wall_ms, max_requests, window_seconds,
                   mem_store, checkers, nchecks, built_up>>
    /\ UNCHANGED <<bvars, svars>>

\* rate_limit line 72: ZADD key now now, member and score both now; an error is
\* dropped by unwrap_or_default.
redis_zadd(p) ==
    /\ chk[p].pc = "zadd"
    /\ IF store_up
       THEN /\ zset' = [zset EXCEPT ![chk[p].key] = @ \cup {chk[p].now}]
            /\ chk' = [chk EXCEPT ![p].pc = "expire", ![p].recorded = TRUE]
            /\ UNCHANGED faulted
       ELSE /\ chk' = [chk EXCEPT ![p].pc = "expire", ![p].failed = @ \cup {"zadd"}]
            /\ faulted' = TRUE
            /\ UNCHANGED zset
    /\ UNCHANGED <<redis_url, store_up, backend, wall_ms, max_requests, window_seconds,
                   expiry, mem_store, checkers, nchecks, built_up, allowed_at>>
    /\ UNCHANGED <<bvars, svars>>

\* rate_limit lines 73-75: EXPIRE key window_secs sets the TTL of an existing key (a
\* TTL of 0 deletes it), an error is dropped by unwrap_or_default; true is returned.
redis_expire(p) ==
    /\ chk[p].pc = "expire"
    /\ LET k == chk[p].key
       IN  IF store_up
           THEN /\ zset' = [zset EXCEPT ![k] = IF window_seconds = 0 THEN {} ELSE @]
                /\ expiry' = [expiry EXCEPT ![k] =
                                 IF zset[k] = {} \/ window_seconds = 0
                                 THEN <<>>
                                 ELSE <<wall_ms + window_seconds * MillisPerSecond>>]
                /\ ReturnCheck(p, "true", chk[p].now, chk[p].failed, FALSE, chk[p].recorded)
           ELSE /\ ReturnCheck(p, "true", chk[p].now, chk[p].failed \cup {"expire"}, FALSE,
                               chk[p].recorded)
                /\ UNCHANGED <<zset, expiry>>
    /\ UNCHANGED <<redis_url, store_up, backend, wall_ms, max_requests, window_seconds,
                   mem_store, checkers, nchecks, built_up>>
    /\ UNCHANGED <<bvars, svars>>

\* The Redis server stops answering (it keeps its data).  Nothing reads the server's
\* state once the in-memory backend is in use.
store_goes_down ==
    /\ backend # "memory"
    /\ store_up
    /\ store_up' = FALSE
    /\ UNCHANGED <<redis_url, backend, wall_ms, max_requests, window_seconds,
                   zset, expiry, mem_store, checkers, chk, nchecks, built_up, allowed_at, faulted>>
    /\ UNCHANGED <<bvars, svars>>

\* The Redis server answers again.
store_comes_up ==
    /\ backend # "memory"
    /\ ~ store_up
    /\ store_up' = TRUE
    /\ UNCHANGED <<redis_url, backend, wall_ms, max_requests, window_seconds,
                   zset, expiry, mem_store, checkers, chk, nchecks, built_up, allowed_at, faulted>>
    /\ UNCHANGED <<bvars, svars>>

\* The wall clock advances; Redis deletes the keys whose TTL has run out.
WallTick ==
    /\ wall_ms + TickMs <= MaxWallMs
    /\ wall_ms' = wall_ms + TickMs
    /\ LET gone == {k \in Keys : expiry[k] # <<>> /\ expiry[k][1] <= wall_ms + TickMs}
       IN  /\ zset' = [k \in Keys |-> IF k \in gone THEN {} ELSE zset[k]]
           /\ expiry' = [k \in Keys |-> IF k \in gone THEN <<>> ELSE expiry[k]]
    /\ UNCHANGED <<redis_url, store_up, backend, max_requests, window_seconds,
                   mem_store, checkers, chk, nchecks, built_up, allowed_at, faulted>>
    /\ UNCHANGED <<bvars, svars>>

\* ------------------------------------------------------------ specifications
Next ==
    \/ \E c \in callers : call_begin(c)
    \/ \E c \in callers : call_admit_state(c)
    \/ \E c \in callers : call_admit_last_failure(c)
    \/ \E c \in callers : call_admit_success_count(c)
    \/ \E c \in callers : call_reject(c)
    \/ \E c \in callers : call_invoke(c)
    \/ \E c \in callers : call_op_returns(c)
    \/ \E c \in callers : call_cancel(c)
    \/ \E c \in callers : call_ok_state(c)
    \/ \E c \in callers : call_ok_success_count(c)
    \/ \E c \in callers : call_ok_close(c)
    \/ \E c \in callers : call_ok_reset_failures(c)
    \/ \E c \in callers : call_err_failure_count(c)
    \/ \E c \in callers : call_err_state(c)
    \/ \E c \in callers : call_err_last_failure(c)
    \/ \E c \in callers : reset_begin(c)
    \/ \E c \in callers : reset_state(c)
    \/ \E c \in callers : reset_failure_count(c)
    \/ \E c \in callers : reset_success_count(c)
    \/ Tick

\* One task uses the breaker: a sequential run of calls and resets.
Init == InitBreaker({1}) /\ NoLimiter

Spec == Init /\ [][Next]_vars

\* A step of call(): the caller starts the next call, or the runtime resumes the task
\* at one of call()'s await points, or the wrapped operation completes.
CallStep ==
    \E c \in callers :
        \/ call_begin(c)
        \/ call_admit_state(c)
        \/ call_admit_last_failure(c)
        \/ call_admit_success_count(c)
        \/ call_reject(c)
        \/ call_invoke(c)
        \/ call_op_returns(c)
        \/ call_ok_state(c)
        \/ call_ok_success_count(c)
        \/ call_ok_close(c)
        \/ call_ok_reset_failures(c)
        \/ call_err_failure_count(c)
        \/ call_err_state(c)
        \/ call_err_last_failure(c)

\* Sequential runs of breakers whose reset_timeout is zero or one tick of the clock.
InitLive ==
    /\ Init
    /\ reset_timeout \in {0, 1}

\* A sequential run whose caller keeps calling while calls remain, on a runtime that
\* runs a ready task and with operations that complete.
SpecLive == InitLive /\ [][Next]_vars /\ WF_vars(CallStep)

\* MaxCallers tasks share the breaker.
InitConcurrent ==
    /\ InitBreaker(Tasks)
    /\ failure_threshold \in {1, 2}
    /\ success_threshold \in {1, 2}
    /\ reset_timeout = 1
    /\ NoLimiter

SpecConcurrent == InitConcurrent /\ [][Next]_vars

\* A SagaOrchestrator, its steps and MaxRuns runs; the breaker is left as built by
\* CircuitBreaker::new(1, 0) and unused.
InitSaga ==
    /\ InitBreaker({})
    /\ failure_threshold = 1
    /\ success_threshold = DefaultSuccessThreshold
    /\ reset_timeout = 0
    /\ NoLimiter

NextSaga ==
    \/ add_step
    \/ \E r \in Runs : run_begin(r)
    \/ \E r \in Runs : run_execute(r)
    \/ \E r \in Runs : run_execute_ok(r)
    \/ \E r \in Runs : run_execute_err(r)
    \/ \E r \in Runs : run_compensate(r)
    \/ \E r \in Runs : run_compensate_returns(r)
    \/ \E r \in Runs : run_compensate_panics(r)
    \/ \E r \in Runs : run_return_err(r)
    \/ \E r \in Runs : run_return_ok(r)

SpecSaga == InitSaga /\ [][NextSaga]_vars

\* The breaker as built by CircuitBreaker::new(1, 0) and the saga, both unused.
IdleBreaker ==
    /\ InitBreaker({})
    /\ failure_threshold = 1
    /\ success_threshold = DefaultSuccessThreshold
    /\ reset_timeout = 0

\* One task calls create_limiter and then checks keys one call after the other, for
\* every setting of REDIS_URL, of the server and of the middleware's limit and window.
InitLimiter ==
    /\ IdleBreaker
    /\ LimiterEnv({1})
    /\ redis_url \in {"absent", "invalid", "valid"}
    /\ store_up \in BOOLEAN
    /\ max_requests \in 0..MaxLimit
    /\ window_seconds \in 0..MaxWindow

NextLimiter ==
    \/ create_limiter
    \/ \E p \in checkers : \E k \in CheckedKeys : mem_begin(p, k)
    \/ \E p \in checkers : mem_check(p)
    \/ \E p \in checkers : \E k \in CheckedKeys : redis_begin(p, k)
    \/ \E p \in checkers : redis_connect(p)
    \/ \E p \in checkers : redis_pipeline(p)
    \/ \E p \in checkers : redis_zadd(p)
    \/ \E p \in checkers : redis_expire(p)
    \/ store_goes_down
    \/ store_comes_up
    \/ WallTick

SpecLimiter == InitLimiter /\ [][NextLimiter]_vars

\* MaxCheckers tasks (processes, for Redis) check the same key of one limiter.
InitLimiterConcurrent ==
    /\ IdleBreaker
    /\ LimiterEnv(Checkers)
    /\ redis_url \in {"absent", "valid"}
    /\ store_up = TRUE
    /\ max_requests \in {0, 1, 2}
    /\ window_seconds = 1

SpecLimiterConcurrent == InitLimiterConcurrent /\ [][NextLimiter]_vars


\* ------------------------------------------------------------------ claims
AllIdle == \A c \in callers : pc[c] = "idle"

\* C1: from a newly built breaker with failure_threshold N >= 1, after k failing
\* calls in a row (and nothing else) the state is Closed while k < N and Open at k = N.
C1_OpensAtThreshold ==
    (AllIdle /\ base = "new" /\ failure_threshold >= 1) =>
        /\ (fail_run < failure_threshold => state = "Closed")
        /\ (fail_run = failure_threshold => state = "Open")

C1_Witness ==
    /\ AllIdle
    /\ base = "new"
    /\ failure_threshold >= 2
    /\ fail_run = failure_threshold
    /\ state = "Open"

\* While the circuit is Open and less than reset_timeout has elapsed since last_failure_time.
OpenAndEarly ==
    /\ state = "Open"
    /\ last_failure_time # <<>>
    /\ now - last_failure_time[1] < reset_timeout

\* C2: while Open and elapsed < reset_timeout no wrapped operation is invoked, and
\* every step of a call in its admission check keeps the state Open, invokes no
\* operation, and returns nothing else than CircuitOpen.
C2_OpenRejects ==
    /\ [](OpenAndEarly => \A c \in callers : pc[c] \notin {"run", "in_op"})
    /\ [][\A c \in callers :
            (/\ OpenAndEarly
             /\ pc[c] \in {"admit_state", "admit_last_failure", "reject"}
             /\ pc'[c] # pc[c])
            => /\ state' = "Open"
               /\ pc'[c] \in {"admit_last_failure", "reject", "idle"}
               /\ invoked'[c] = 0
               /\ (pc'[c] = "idle" => result'[c] = Res("CircuitOpen", "-"))]_vars

C2_Witness ==
    /\ OpenAndEarly
    /\ \E c \in callers :
         /\ pc[c] = "idle"
         /\ seen[c] = "Open"
         /\ result[c].kind = "CircuitOpen"
         /\ invoked[c] = 0

\* The positions of a call from its admission check to the invocation of f.
AdmissionPath == <<"admit_state", "admit_last_failure", "admit_success_count", "run", "in_op">>

PathIndex(p) == CHOOSE k \in 1..Len(AdmissionPath) : AdmissionPath[k] = p

\* C3: a call that finds the circuit Open with elapsed >= reset_timeout goes,
\* step by step, through the transition to HalfOpen to the invocation of the
\* operation: it is never rejected, and the state is HalfOpen from the transition on.
C3_ProbeAfterTimeout ==
    [][\A c \in callers :
         (/\ pc[c] \in {"admit_state", "admit_last_failure", "admit_success_count", "run"}
          /\ pc'[c] # pc[c]
          /\ IF pc[c] = "admit_state" THEN state = "Open" ELSE seen[c] = "Open"
          /\ last_failure_time # <<>>
          /\ now - last_failure_time[1] >= reset_timeout)
         => /\ pc'[c] = AdmissionPath[PathIndex(pc[c]) + 1]
            /\ (pc'[c] = "admit_last_failure" => state' = "Open")
            /\ (pc'[c] \in {"admit_success_count", "run", "in_op"} => state' = "HalfOpen")
            /\ (pc'[c] = "in_op" => invoked'[c] = 1)]_vars

C3_Witness ==
    \E c \in callers :
        /\ pc[c] = "in_op"
        /\ seen[c] = "Open"
        /\ invoked[c] = 1
        /\ state = "HalfOpen"
        /\ reset_timeout >= 1
        /\ now - last_failure_time[1] >= reset_timeout

\* C4: after k >= 1 successful probe calls in a row the state is HalfOpen while
\* k < success_threshold; once k reaches it the state is Closed and failure_count
\* and success_count are 0.
C4_ClosesAfterSuccesses ==
    (AllIdle /\ probe_oks >= 1) =>
        IF probe_oks < success_threshold
        THEN state = "HalfOpen"
        ELSE state = "Closed" /\ failure_count = 0 /\ success_count = 0

C4_Witness ==
    /\ AllIdle
    /\ success_threshold >= 2
    /\ probe_oks = success_threshold
    /\ state = "Closed"
    /\ failure_count = 0
    /\ success_count = 0

\* C5: when a call that ran as a probe (it found the circuit Open or HalfOpen and its
\* operation failed) returns, the state is Open and last_failure_time is the instant
\* of the return, whatever the counters are.
C5_ProbeFailureReopens ==
    [][\A c \in callers :
         (/\ pc[c] # "idle"
          /\ pc'[c] = "idle"
          /\ seen[c] \in {"Open", "HalfOpen"}
          /\ op_result[c].kind = "Err")
         => /\ state' = "Open"
            /\ last_failure_time' = <<now>>
            /\ result'[c] = Res("OperationError", op_result[c].val)]_vars

C5_Witness ==
    \E c \in callers :
        /\ pc[c] = "idle"
        /\ seen[c] = "HalfOpen"
        /\ result[c].kind = "OperationError"
        /\ state = "Open"
        /\ success_count >= 1
        /\ now >= 1
        /\ last_failure_time = <<now>>

\* C6: a returned call either was rejected with CircuitOpen and never invoked the
\* operation, or invoked it exactly once and returns its outcome: Ok(v) for Ok(v),
\* OperationError(e) for Err(e).  (A call dropped during its operation returns nothing.)
C6_ResultMirrorsOperation ==
    \A c \in callers :
        /\ invoked[c] <= 1
        /\ (pc[c] = "idle" /\ result[c].kind \in {"CircuitOpen", "Ok", "OperationError"}) =>
              IF invoked[c] = 0
              THEN result[c] = Res("CircuitOpen", "-") /\ op_result[c] = NoResult
              ELSE /\ result[c].kind # "CircuitOpen"
                   /\ result[c].val = op_result[c].val
                   /\ (result[c].kind = "Ok") = (op_result[c].kind = "Ok")
                   /\ (result[c].kind = "OperationError") = (op_result[c].kind = "Err")
        /\ (pc[c] = "idle" /\ invoked[c] = 1 /\ result[c].kind # "Cancelled") =>
              result[c].kind \in {"Ok", "OperationError"}

C6_Witness ==
    \E c \in callers :
        /\ pc[c] = "idle"
        /\ seen[c] = "HalfOpen"
        /\ invoked[c] = 1
        /\ op_result[c] = Res("Ok", "b")
        /\ result[c] = Res("Ok", "b")

\* Tasks none of which can ever take its next step: each waits for a mutex that
\* another task of the set holds.
Deadlocked(S) ==
    /\ S # {}
    /\ \A c \in S : WantsLock(c) # "none" /\ lock[WantsLock(c)] \in S

\* C7: under every interleaving of concurrent call() and reset() invocations no set
\* of tasks blocks each other forever on the breaker's mutexes.
C7_NoDeadlock == ~ \E S \in SUBSET callers : Deadlocked(S)

\* C8: a completed reset() leaves the breaker Closed with both counters 0; the next
\* call is not rejected, and failure_threshold failing calls in a row are needed to
\* open the circuit again.
C8_ResetCloses ==
    /\ (AllIdle /\ \E c \in callers : result[c].kind = "Reset") =>
          state = "Closed" /\ failure_count = 0 /\ success_count = 0
    /\ (base = "reset" /\ fail_run = 0) =>
          \A c \in callers :
              pc[c] \notin {"admit_last_failure", "admit_success_count", "reject"}
    /\ (AllIdle /\ base = "reset" /\ failure_threshold >= 1) =>
          /\ (fail_run < failure_threshold => state = "Closed")
          /\ (fail_run = failure_threshold => state = "Open")

C8_Witness ==
    /\ AllIdle
    /\ base = "reset"
    /\ failure_threshold >= 2
    /\ fail_run = failure_threshold
    /\ failure_count = failure_threshold
    /\ state = "Open"

\* The execute calls a run has made so far, in order.
ExecCalls(r) == SelectSeq(context[r], LAMBDA e : e.op = "execute")

\* The steps whose execute returned Ok in a run, in order.
ExecutedOk(r) ==
    LET ok == SelectSeq(context[r], LAMBDA e : e.op = "execute" /\ e.ok)
    IN  [k \in 1..Len(ok) |-> ok[k].step]

\* The steps whose compensate a run has called and left, in order.
Compensated(r) ==
    LET cs == SelectSeq(context[r], LAMBDA e : e.op = "compensate")
    IN  [k \in 1..Len(cs) |-> cs[k].step]

Reverse(sq) == [k \in 1..Len(sq) |-> sq[Len(sq) + 1 - k]]

IsPrefix(a, b) == Len(a) <= Len(b) /\ SubSeq(b, 1, Len(a)) = a

\* C9: the execute calls of a run are those of the steps in insertion order; while
\* step i's execute runs, exactly the steps before i have returned, all with Ok; and
\* after an execute that failed the run calls no execute.
C9_SequentialExecution ==
    \A r \in Runs :
        LET ex == ExecCalls(r)
        IN  /\ Len(ex) <= Len(steps)
            /\ \A k \in 1..Len(ex) : ex[k].step = steps[k]
            /\ \A k \in 1..(Len(ex) - 1) : ex[k].ok
            /\ run_pc[r] = "executing" =>
                  /\ Len(ex) = run_i[r] - 1
                  /\ \A k \in 1..Len(ex) : ex[k].ok
            /\ (Len(ex) > 0 /\ ~ ex[Len(ex)].ok) => run_pc[r] \notin {"loop", "executing"}

C9_Witness ==
    \E r \in Runs :
        /\ run_pc[r] = "returned"
        /\ Len(ExecCalls(r)) = 3
        /\ ExecutedOk(r) = <<1, 2>>
        /\ ~ ExecCalls(r)[3].ok

\* C10: the compensate calls of a run follow its failing execute, are made on the
\* steps whose execute succeeded most recent first, and all of them are made when
\* run returns its error.
C10_ReverseCompensation ==
    \A r \in Runs :
        LET ex == ExecCalls(r)
            undo == Reverse(ExecutedOk(r))
            comp == Compensated(r)
        IN  /\ IsPrefix(comp, undo)
            /\ run_pc[r] = "compensating" =>
                  /\ Len(comp) < Len(undo)
                  /\ comp_step[r] = undo[Len(comp) + 1]
            /\ (comp # <<>> \/ run_pc[r] = "compensating") =>
                  /\ ~ ex[Len(ex)].ok
                  /\ \A k \in 1..Len(context[r]) :
                        context[r][k].op = "compensate" => k > Len(ex)
            /\ (run_pc[r] = "returned" /\ run_result[r].kind = "Err") => comp = undo

C10_Witness ==
    \E r \in Runs :
        /\ run_pc[r] = "returned"
        /\ run_result[r].kind = "Err"
        /\ ExecutedOk(r) = <<1, 2>>
        /\ Compensated(r) = <<2, 1>>

\* The number of compensate calls a run has made on step st.
CompensateCount(r, st) ==
    Len(SelectSeq(context[r], LAMBDA e : e.op = "compensate" /\ e.step = st))

\* The steps a run is compensating or has compensated.
CompensateTargets(r) ==
    {context[r][k].step : k \in {j \in 1..Len(context[r]) : context[r][j].op = "compensate"}}
        \cup (IF run_pc[r] = "compensating" THEN {comp_step[r]} ELSE {})

\* C11: a run calls compensate on a step only after that step's execute returned Ok
\* in the same run; the step whose execute failed and the steps never executed are
\* not compensated.
C11_OnlyExecutedCompensated ==
    \A r \in Runs :
        LET ex == ExecCalls(r)
        IN  /\ \A k \in 1..Len(context[r]) :
                  context[r][k].op = "compensate" =>
                      \E j \in 1..(k - 1) :
                          /\ context[r][j].op = "execute"
                          /\ context[r][j].ok
                          /\ context[r][j].step = context[r][k].step
            /\ \A st \in CompensateTargets(r) : \E j \in 1..Len(ex) : ex[j].ok /\ ex[j].step = st
            /\ \A j \in 1..Len(ex) : ~ ex[j].ok => ex[j].step \notin CompensateTargets(r)
            /\ \A k \in (Len(ex) + 1)..Len(steps) : steps[k] \notin CompensateTargets(r)

C11_Witness ==
    \E r \in Runs :
        /\ Len(steps) = 3
        /\ run_pc[r] = "returned"
        /\ run_result[r].kind = "Err"
        /\ Len(ExecCalls(r)) = 2
        /\ ExecutedOk(r) = <<1>>
        /\ Compensated(r) = <<1>>

\* C12: a run that returned completed all its steps or is fully compensated: when
\* run returns an error, every step whose execute returned Ok in that run has had its
\* compensate called exactly once; when it returns Ok every step was executed.
C12_AllOrNothing ==
    \A r \in Runs :
        run_pc[r] = "returned" =>
            \/ /\ run_result[r].kind = "Ok"
               /\ ExecutedOk(r) = steps
            \/ /\ run_result[r].kind = "Err"
               /\ \A k \in 1..Len(ExecutedOk(r)) : CompensateCount(r, ExecutedOk(r)[k]) = 1
               /\ \A k \in 1..Len(context[r]) : context[r][k].op = "compensate" => context[r][k].ok

C12_Witness ==
    \E r \in Runs :
        /\ run_pc[r] = "returned"
        /\ run_result[r].kind = "Err"
        /\ ExecutedOk(r) = <<1, 2>>
        /\ Len(ExecCalls(r)) = 3
        /\ CompensateCount(r, 1) = 1
        /\ CompensateCount(r, 2) = 1

\* A run whose execute failed and that has ended, by returning or by unwinding.
EndedAfterFailure(r) ==
    /\ run_pc[r] \in {"returned", "panicked"}
    /\ ExecCalls(r) # <<>>
    /\ ~ ExecCalls(r)[Len(ExecCalls(r))].ok

\* C13: a panic inside one step's compensate does not end the compensation: a run
\* whose execute failed ends only by returning the error of that execute, with every
\* step that was executed compensated.
C13_CompensationFailureSwallowed ==
    \A r \in Runs :
        EndedAfterFailure(r) =>
            /\ run_pc[r] = "returned"
            /\ run_result[r] = SagaRes("Err", ExecCalls(r)[Len(ExecCalls(r))].err, <<>>)
            /\ Compensated(r) = Reverse(ExecutedOk(r))

\* C14: the error run returns is the error of the one execute that failed in it.
C14_ReturnsFirstError ==
    \A r \in Runs :
        (run_pc[r] = "returned" /\ run_result[r].kind = "Err") =>
            LET ex == ExecCalls(r)
                failed == {k \in 1..Len(ex) : ~ ex[k].ok}
            IN  /\ failed = {Len(ex)}
                /\ run_result[r].err = ex[Len(ex)].err
                /\ run_result[r].err \in Values

C14_Witness ==
    \E r \in Runs :
        /\ run_pc[r] = "returned"
        /\ run_result[r].kind = "Err"
        /\ run_result[r].err = "b"
        /\ ExecCalls(r)[Len(ExecCalls(r))].err = "b"
        /\ Compensated(r) = <<2, 1>>

\* The context after the execute of every step, in insertion order, worked on it.
AllExecuted == [k \in 1..Len(steps) |-> StepCall("execute", steps[k], TRUE, "-")]

\* C15: when the execute of every step returned Ok (of no step, for a saga without
\* steps) the run returns Ok with the context as left by all the steps in insertion
\* order and has called no compensate; and run returns Ok in no other case.
C15_SuccessReturnsContext ==
    \A r \in Runs :
        /\ (run_pc[r] = "returned" /\ run_result[r].kind = "Ok") =>
              /\ run_result[r].ctx = AllExecuted
              /\ context[r] = AllExecuted
              /\ Compensated(r) = <<>>
        /\ (context[r] = AllExecuted /\ run_pc[r] \notin {"idle", "loop", "executing"}) =>
              /\ run_pc[r] = "returned"
              /\ run_result[r].kind = "Ok"

C15_Witness ==
    \E r \in Runs :
        /\ Len(steps) = 3
        /\ run_pc[r] = "returned"
        /\ run_result[r] = SagaRes("Ok", "-", AllExecuted)

\* The timestamps the backend in use holds for key k, as a sequence.
SetToSeq(S) ==
    LET RECURSIVE enum(_)
        enum(T) == IF T = {} THEN <<>>
                   ELSE LET m == CHOOSE x \in T : \A y \in T : x <= y
                        IN  <<m>> \o enum(T \ {m})
    IN  enum(S)

Stored(k) == IF backend = "memory" THEN mem_store[k] ELSE SetToSeq(zset[k])

\* The number of timestamps of sq that are at most ms milliseconds before t (less
\* than ms before t, when strict).
Within(sq, t, ms, strict) ==
    Len(SelectSeq(sq, LAMBDA g : IF strict THEN t - g < ms ELSE t - g <= ms))

\* The checks on the key of checker p that returned true before its call.
AllowedBefore(p) ==
    LET al == allowed_at[chk[p].key]
    IN  IF chk[p].result = "true" THEN SubSeq(al, 1, Len(al) - 1) ELSE al

\* The sliding window on backend b: a check of an uncontended run without store
\* failures, with limit L >= 1, that completed at the clock reading it took as its
\* now, returned true when fewer than L earlier allowed checks on its key were made
\* at most W before it, and false when L of them were made less than W before it.
SlidingWindow(b) ==
    \A p \in checkers :
        (/\ backend = b
         /\ chk[p].pc = "done"
         /\ chk[p].now = wall_ms
         /\ ~ faulted
         /\ max_requests >= 1)
        => LET W == window_seconds * MillisPerSecond
           IN  /\ Within(AllowedBefore(p), chk[p].now, W, FALSE) < max_requests
                     => chk[p].result = "true"
               /\ Within(AllowedBefore(p), chk[p].now, W, TRUE) >= max_requests
                     => chk[p].result = "false"

\* C16: sequential checks on one key behave as a sliding window on both backends:
\* the first L checks within W of each other are allowed, the next check made while
\* those L are inside the window is denied, and a check made after enough of them
\* aged past W is allowed again.
C16_SlidingWindow == SlidingWindow("memory") /\ SlidingWindow("redis")

\* C17: in an uncontended run, after every check the timestamps stored for its key
\* that lie in the window ending at the check's now are at most limit, on both
\* backends.
C17_WindowCountBounded ==
    \A p \in checkers :
        chk[p].pc = "done" =>
            LET t == chk[p].now
                inside == SelectSeq(Stored(chk[p].key), LAMBDA ts : ts >= window_start(t) /\ ts <= t)
            IN  Len(inside) <= max_requests

C17_Witness ==
    \E p \in checkers :
        /\ backend = "redis"
        /\ chk[p].pc = "done"
        /\ chk[p].result = "false"
        /\ max_requests = 2
        /\ Cardinality(zset[chk[p].key]) = 2
        /\ \A ts \in zset[chk[p].key] : ts >= window_start(chk[p].now)

\* C18: fail open: a check of the Redis backend in which the connection, the
\* pipeline or a later store operation failed returns true; the only results of a
\* check are true and false, and false is returned only by a check whose store
\* operations all succeeded.
C18_FailOpen ==
    \A p \in checkers :
        /\ chk[p].pc = "done" => chk[p].result \in {"true", "false"}
        /\ (chk[p].pc = "done" /\ chk[p].failed # {}) => chk[p].result = "true"
        /\ chk[p].result = "false" => chk[p].failed = {}

C18_Witness ==
    \E p \in checkers :
        /\ chk[p].pc = "done"
        /\ chk[p].failed = {"pipeline"}
        /\ chk[p].result = "true"
        /\ max_requests >= 1
        /\ zcount(zset[chk[p].key], chk[p].now) >= max_requests

\* C19: create_limiter returns the Redis backend only when REDIS_URL is a valid
\* address and the server was reachable when it ran, and the in-memory backend in
\* every other case.
C19_FactoryFallsBack ==
    /\ backend = "redis" => (redis_url = "valid" /\ built_up)
    /\ backend = "memory" => ~ (redis_url = "valid" /\ built_up)

C21_FailureCountedOnlyWhenNotOpen ==
    [][failure_count' = failure_count + 1 => state \in {"Closed", "HalfOpen"}]_vars

\* C22: a call admitted in Closed that returns Ok leaves failure_count 0, and with
\* failure_threshold >= 2 a sequentially used breaker leaves Closed only by the call
\* that completes a run of failure_threshold failing calls in a row.
C22_OnlyConsecutiveFailuresOpen ==
    [][/\ \A c \in callers :
              (pc[c] = "ok_reset_failures" /\ pc'[c] = "idle") => failure_count' = 0
       /\ (state = "Closed" /\ state' # "Closed" /\ failure_threshold >= 2) =>
              streak + 1 >= failure_threshold]_vars

C22_Witness ==
    /\ AllIdle
    /\ failure_threshold = 2
    /\ cleared = 1
    /\ streak = 1
    /\ failure_count = 1
    /\ state = "Closed"

\* The step is reset() writing the state (line 203).
ResetStep == \E c \in callers : pc[c] = "reset_state" /\ pc'[c] = "reset_failure_count"

\* C23: under every interleaving the state changes only Closed->Open, Open->HalfOpen,
\* HalfOpen->Closed, HalfOpen->Open, or to Closed by reset(); never Closed->HalfOpen,
\* and never Open->Closed without a reset().
C23_OnlyListedTransitions ==
    [][state' # state =>
          \/ <<state, state'>> \in {<<"Closed", "Open">>, <<"Open", "HalfOpen">>,
                                    <<"HalfOpen", "Closed">>, <<"HalfOpen", "Open">>}
          \/ state' = "Closed" /\ ResetStep]_vars

\* The circuit has opened, a call admitted after the timeout has made it HalfOpen, and
\* while that call's operation runs a reset() of another task has closed it.
C23_Witness ==
    /\ \E c \in callers : result[c].kind = "Reset" /\ seen[c] = "HalfOpen" /\ pc[c] = "idle"
    /\ \E c \in callers : seen[c] = "Open" /\ pc[c] = "in_op"
    /\ state = "Closed"
    /\ ~ Sequential

\* C24: every transition to Open records last_failure_time.  Under every interleaving
\* of call() and reset(), state = Open with no instant stored occurs only while the
\* opening call still holds the state mutex on its way to line 185 / 190; a call
\* that finds the circuit Open always finds an instant, and it goes on to its
\* operation only when reset_timeout has elapsed since that instant.
C24_OpenHasTimestamp ==
    [][/\ (state' = "Open" /\ last_failure_time' = <<>>) =>
              \E c \in callers : pc'[c] = "err_last_failure" /\ lock'["state"] = c
       /\ \A c \in callers : pc'[c] = "admit_last_failure" => last_failure_time' # <<>>
       /\ \A c \in callers :
              (pc[c] = "admit_last_failure" /\ pc'[c] \notin {"admit_last_failure", "reject"}) =>
                  /\ last_failure_time # <<>>
                  /\ last_failure_time[1] + reset_timeout <= now
                  /\ pc'[c] = "admit_success_count"]_vars

C24_Witness ==
    /\ state = "Open"
    /\ last_failure_time # <<>>
    /\ \E c \in callers : pc[c] = "admit_last_failure"
    /\ \E c \in callers : pc[c] = "idle" /\ result[c].kind = "Reset"

\* A task is inside the critical section that closes the circuit (lines 159-163) or
\* inside reset() (lines 203-207).
Closing ==
    \E c \in callers :
        /\ pc[c] \in {"ok_close", "reset_failure_count", "reset_success_count"}
        /\ lock["state"] = c

\* C25: the step that completes the entry into HalfOpen leaves success_count 0, so a
\* HalfOpen breaker at rest has counted exactly the successful calls of the current
\* episode; and success_count is 0 whenever the breaker is Closed and no task is in
\* the middle of closing it.
C25_SuccessCountReset ==
    [][/\ \A c \in callers :
              (pc[c] = "admit_success_count" /\ pc'[c] = "run") =>
                  state' = "HalfOpen" /\ success_count' = 0
       /\ (state = "Open" /\ state' = "HalfOpen") =>
              \E c \in callers : pc'[c] = "admit_success_count" /\ lock'["state"] = c
       /\ (Sequential /\ AllIdle' /\ state' = "HalfOpen") => success_count' = probe_oks'
       /\ (state' = "Closed" /\ ~ Closing') => success_count' = 0]_vars

\* With failure_threshold 1, success_threshold 2 and reset_timeout 0: a failing call
\* opened the circuit, a first episode counted one success and ended with a failure,
\* and the fourth call has just begun the second episode.
C25_Witness ==
    /\ failure_threshold = 1
    /\ success_threshold = 2
    /\ reset_timeout = 0
    /\ now = 0
    /\ ncalls = 4
    /\ failure_count = 2
    /\ state = "HalfOpen"
    /\ success_count = 0
    /\ \E c \in callers : pc[c] = "run" /\ seen[c] = "Open"

BeforeOutcome(c) ==
    pc[c] \in {"admit_state", "admit_last_failure", "admit_success_count", "run", "in_op"}

\* Task c's call was dropped while its operation was in flight.
Cancelled(c) == pc[c] = "idle" /\ result[c].kind = "Cancelled"

\* C27 as stated: after a call of a sequentially used breaker is cancelled while its
\* operation is in flight, the state is the one the call found, as if the call had
\* never been made.
C27_CancelLeavesNoTrace ==
    Sequential => \A c \in callers : Cancelled(c) => state = seen[c]

\* C27, amended: in a sequentially used breaker the cancellation itself changes none
\* of state, failure_count, success_count and last_failure_time, and up to the
\* cancellation the call has changed nothing but what its admission does: a call that
\* found the circuit Open past reset_timeout has made it HalfOpen and zeroed
\* success_count.
C27_CancelKeepsAdmissionOnly ==
    [][Sequential =>
          \A c \in callers :
              /\ (pc[c] = "in_op" /\ Cancelled(c)') =>
                    UNCHANGED <<state, failure_count, success_count, last_failure_time>>
              /\ (BeforeOutcome(c) /\ (BeforeOutcome(c)' \/ Cancelled(c)')) =>
                    /\ UNCHANGED <<failure_count, last_failure_time>>
                    /\ state' = state \/ (state = "Open" /\ state' = "HalfOpen")
                    /\ \/ success_count' = success_count
                       \/ pc[c] = "admit_success_count" /\ success_count' = 0
              /\ Cancelled(c)' =>
                    \/ state' = seen'[c]
                    \/ seen'[c] = "Open" /\ state' = "HalfOpen" /\ success_count' = 0]_vars

\* A call that found the circuit Open after the timeout was cancelled during its
\* operation: the circuit is left HalfOpen with failure_count as the opening left it.
C27_Witness ==
    /\ Sequential
    /\ \E c \in callers : Cancelled(c) /\ seen[c] = "Open"
    /\ state = "HalfOpen"
    /\ failure_count = failure_threshold
    /\ failure_threshold >= 1
    /\ last_failure_time # <<>>

\* C29: under concurrent use success_count is incremented only by a call that was
\* admitted in the HalfOpen episode (it found the breaker HalfOpen, or Open past the
\* timeout); a call admitted while Closed that succeeds during HalfOpen does not
\* count toward closing.
C29_OnlyProbesCount ==
    [][success_count' = success_count + 1 =>
          \E c \in callers :
              /\ pc[c] = "ok_success_count"
              /\ pc'[c] # "ok_success_count"
              /\ seen[c] \in {"Open", "HalfOpen"}]_vars

\* C30: whenever the breaker is Open and no task is inside the critical section that
\* opens it, last_failure_time is the instant of the change to Open: a failure that
\* completes while the breaker is already Open does not record a later instant.
C30_TimestampKeptWhileOpen ==
    (state = "Open" /\ lock["state"] = 0) => last_failure_time = opened_at

\* The calls the task of a sequential run can still complete, the one in progress
\* included.
CallsLeft == MaxCalls - ncalls + 1

\* A call has begun on a breaker that is HalfOpen, or Open with reset_timeout elapsed,
\* and success_threshold calls (at least one) can still complete.
Recoverable ==
    /\ \E c \in callers : pc[c] = "admit_state"
    /\ \/ state = "HalfOpen"
       \/ /\ state = "Open"
          /\ last_failure_time # <<>>
          /\ timeout_elapsed(last_failure_time[1])
    /\ CallsLeft >= success_threshold
    /\ CallsLeft >= 1

\* A call has begun on a Closed breaker and failure_threshold calls (at least one) can
\* still complete.
Trippable ==
    /\ \E c \in callers : pc[c] = "admit_state"
    /\ state = "Closed"
    /\ CallsLeft >= failure_threshold
    /\ CallsLeft >= 1

\* The run of calls was interrupted: a reset() is in progress or a call was dropped.
Interrupted ==
    \E c \in callers :
        \/ pc[c] \in {"reset_state", "reset_failure_count", "reset_success_count"}
        \/ Cancelled(c)

\* An operation has just returned Ok / Err.
OpSucceeded == \E c \in callers : op_result[c].kind = "Ok"

OpFailed == \E c \in callers : op_result[c].kind = "Err"

\* C28: the breaker has no terminal state.  In a sequential run whose calls go on, a
\* breaker that is HalfOpen, or Open with reset_timeout elapsed, becomes Closed unless
\* an operation fails or the run is interrupted, and a Closed breaker becomes Open
\* unless an operation succeeds or the run is interrupted.
C28_NoTerminalState ==
    /\ Recoverable ~> (state = "Closed" \/ OpFailed \/ Interrupted)
    /\ Trippable ~> (state = "Open" \/ OpSucceeded \/ Interrupted)

\* With both thresholds 1 and reset_timeout 0 the breaker has gone round once: a
\* failing call opened it, a successful call closed it, a failing call opened it again.
C28_Witness ==
    /\ AllIdle
    /\ failure_threshold = 1
    /\ success_threshold = 1
    /\ reset_timeout = 0
    /\ ncalls = 3
    /\ streak = 1
    /\ failure_count = 1
    /\ state = "Open"

\* C31: whenever a call is about to be rejected (lines 139-141), the remaining time
\* reset_timeout - elapsed it computes for the message is not negative, whatever the
\* clock did since the comparison of line 132; the rejection returns CircuitOpen.
C31_RemainingNeverNegative ==
    /\ \A c \in callers :
          pc[c] = "reject" => reset_timeout - elapsed(last_failure_time[1]) >= 0
    /\ \A c \in callers : result[c].kind # "Panic"

\* What run r owns: its position, its locals, its context and its result.
RunLocals(r) ==
    <<run_pc[r], run_i[r], executed_steps[r], comp_iter[r], comp_step[r], context[r],
      run_err[r], run_result[r]>>

\* C32: runs on one orchestrator, concurrent or one after the other, are independent:
\* a step of one run changes nothing another run owns, compensate() is handed exactly
\* the steps whose execute returned Ok in the same run, and each step a run
\* compensates is one of those, whatever the other runs have executed.
C32_RunsIndependent ==
    [][\A r \in Runs :
          /\ run_pc'[r] # run_pc[r] =>
                \A q \in Runs \ {r} : RunLocals(q)' = RunLocals(q)
          /\ (run_pc[r] = "executing" /\ run_pc'[r] = "compensate_loop") =>
                comp_iter'[r] = ExecutedOk(r)'
          /\ run_pc'[r] = "compensating" =>
                \E k \in 1..Len(ExecutedOk(r)') : ExecutedOk(r)'[k] = comp_step'[r]
          /\ (run_pc'[r] = "returned" /\ run_result'[r].kind = "Err") =>
                Compensated(r)' = Reverse(ExecutedOk(r))']_vars

\* Two runs are compensating at the same time: run 1, which executed steps 1 and 2,
\* is undoing step 2 while run 2, which executed step 1 only, is undoing step 1.
C32_Witness ==
    /\ run_pc[1] = "compensating"
    /\ run_pc[2] = "compensating"
    /\ ExecutedOk(1) = <<1, 2>>
    /\ ExecutedOk(2) = <<1>>
    /\ comp_step[1] = 2
    /\ comp_step[2] = 1

\* C33: in the in-process backend, under every interleaving of concurrent checks, a
\* check purges, counts and adds in one step under the store's write lock (the
\* decision is taken on the history that step purged, and no other check acts in
\* between), and the timestamps stored for a key never exceed the limit.
C33_MemoryAtomicAndBounded ==
    [][/\ backend' = "memory" =>
              \A k \in Keys : Len(mem_store'[k]) <= max_requests'
       /\ \A p \in checkers :
              (chk[p].pc = "mem_lock" /\ chk'[p].pc = "done") =>
                  LET k == chk[p].key
                      history == retain(mem_store[k], chk[p].now)
                  IN  /\ (chk'[p].result = "true") = (Len(history) < max_requests)
                      /\ mem_store'[k] = IF chk'[p].result = "true"
                                         THEN Append(history, chk[p].now)
                                         ELSE history
                      /\ \A q \in checkers \ {p} : chk'[q] = chk[q]]_vars

\* Two tasks check one key of the in-process backend: the key holds limit = 1
\* timestamp, one check has been denied and another has read its now and waits for
\* the lock.
C33_Witness ==
    /\ ~ Uncontended
    /\ backend = "memory"
    /\ max_requests = 1
    /\ Len(mem_store["k1"]) = 1
    /\ \E p \in checkers : chk[p].pc = "done" /\ chk[p].result = "false"
    /\ \E p \in checkers : chk[p].pc = "mem_lock" /\ chk[p].now < wall_ms

\* The timestamps of a history.
Elems(sq) == {sq[i] : i \in 1..Len(sq)}

\* C34: with a window of at least one second, a check at now removes from its key
\* exactly the timestamps older than now - window, on both backends: a timestamp
\* equal to now - window stays stored (and counted), a strictly older one goes.
C34_PurgeKeepsBoundary ==
    [][\A p \in checkers :
          LET k == chk[p].key
              ws == window_start(chk[p].now)
          IN  /\ (window_seconds >= 1 /\ chk[p].pc = "mem_lock" /\ chk'[p].pc = "done") =>
                    \A ts \in Elems(mem_store[k]) :
                        (ts >= ws) = (ts \in Elems(mem_store'[k]))
              /\ (window_seconds >= 1 /\ store_up /\ chk[p].pc = "pipeline"
                      /\ chk'[p].pc # "pipeline") =>
                    \A ts \in zset[k] : (ts >= ws) = (ts \in zset'[k])]_vars

\* C35: a check is denied exactly when the count after the purge is >= limit, and a
\* denied check records nothing: it adds no timestamp to its key and, on the shared
\* store, leaves the key's expiry as it was, so between checks every stored timestamp
\* is the now of a check that was allowed.
C35_DeniedRecordsNothing ==
    [][/\ \A p \in checkers :
              LET k == chk[p].key
              IN  /\ (chk[p].pc = "mem_lock" /\ chk'[p].pc = "done") =>
                        LET history == retain(mem_store[k], chk[p].now)
                        IN  /\ (chk'[p].result = "false") = (Len(history) >= max_requests)
                            /\ chk'[p].result = "false" =>
                                  mem_store'[k] = history /\ ~ chk'[p].recorded
                  /\ (store_up /\ chk[p].pc = "pipeline" /\ chk'[p].pc # "pipeline") =>
                        LET kept == zremrangebyscore(zset[k], chk[p].now)
                        IN  /\ (chk'[p].pc = "done" /\ chk'[p].result = "false")
                                  = (Cardinality(kept) >= max_requests)
                            /\ chk'[p].pc = "done" =>
                                  /\ zset'[k] = kept
                                  /\ expiry'[k] = (IF kept = {} THEN <<>> ELSE expiry[k])
                                  /\ ~ chk'[p].recorded
                                  /\ chk'[p].failed = {}
                  /\ (chk'[p].pc = "done" /\ chk'[p].result = "false") =>
                        chk[p].pc \in {"mem_lock", "pipeline", "done"}
       /\ (Uncontended /\ \A p \in checkers : chk'[p].pc \in {"idle", "done"}) =>
              \A k \in Keys : Elems(Stored(k))' \subseteq Elems(allowed_at'[k])]_vars

\* A check on the shared store has been denied at the present millisecond: its key
\* still holds the earlier timestamp and an expiry that was set before now.
C35_Witness ==
    /\ backend = "redis"
    /\ max_requests >= 1
    /\ \E p \in checkers :
          /\ chk[p].pc = "done"
          /\ chk[p].result = "false"
          /\ chk[p].now = wall_ms
          /\ wall_ms > 0
          /\ zset[chk[p].key] # {}
          /\ wall_ms \notin zset[chk[p].key]
          /\ expiry[chk[p].key] # <<>>
          /\ expiry[chk[p].key][1] < wall_ms + window_seconds * MillisPerSecond

\* C36: the shared-store backend decides as the in-process algorithm does: in an
\* uncontended run without store failures, a check that completed at the clock
\* reading it took as its now, several checks of one millisecond included, is
\* allowed exactly when the in-process purge of the earlier allowed checks on its
\* key leaves fewer than limit timestamps.
C36_BackendsAgree ==
    \A p \in checkers :
        (/\ backend = "redis"
         /\ Uncontended
         /\ chk[p].pc = "done"
         /\ chk[p].now = wall_ms
         /\ ~ faulted)
        => ((chk[p].result = "true")
               = (Len(retain(AllowedBefore(p), chk[p].now)) < max_requests))

\* C37: no failure of the shared store is silent: a check of the Redis backend in
\* which a store operation failed, and in particular one that returned true without
\* its timestamp having been added to the store, has logged an error.
C37_StoreFailuresLogged ==
    \A p \in checkers :
        (/\ backend = "redis"
         /\ Uncontended
         /\ chk[p].pc = "done")
        => /\ chk[p].failed # {} => chk[p].logged
           /\ (chk[p].result = "true" /\ ~ chk[p].recorded) => chk[p].logged

\* C38: in the in-process backend the list of timestamps of every key is
\* non-decreasing in every reachable state, concurrent checks on one key that read
\* their now before they obtain the store lock included.
C38_HistoryOrdered ==
    backend = "memory" =>
        \A k \in Keys :
            \A i \in 1..Len(mem_store[k]) : \A j \in i..Len(mem_store[k]) :
                mem_store[k][i] <= mem_store[k][j]

\* A step of the check of checker p: its position or result changes.
CheckStep(p) == chk'[p] # chk[p]

\* C39: keys are isolated: a step of a check on key k leaves the timestamps and the
\* expiry stored for every other key as they were, and the decision of the check is
\* a function of the timestamps stored for k alone.
C39_KeysIsolated ==
    [][\A p \in checkers :
          CheckStep(p) =>
              LET k == chk'[p].key
              IN  /\ \A q \in Keys \ {k} :
                        /\ mem_store'[q] = mem_store[q]
                        /\ zset'[q] = zset[q]
                        /\ expiry'[q] = expiry[q]
                        /\ allowed_at'[q] = allowed_at[q]
                  /\ (chk[p].pc = "mem_lock" /\ chk'[p].pc = "done") =>
                        (chk'[p].result = "true")
                            = ~ over_limit(Len(retain(mem_store[k], chk[p].now)))
                  /\ (store_up /\ chk[p].pc = "pipeline" /\ chk'[p].pc # "pipeline") =>
                        (chk'[p].pc = "zadd")
                            = ~ over_limit(Cardinality(zremrangebyscore(zset[k], chk[p].now)))]_vars

\* A check on k2 has been denied while k1 holds a timestamp that the purge of that
\* check would have removed, had it run over k1.
C39_Witness ==
    /\ backend = "memory"
    /\ max_requests >= 1
    /\ \E p \in checkers :
          /\ chk[p].pc = "done"
          /\ chk[p].key = "k2"
          /\ chk[p].result = "false"
          /\ mem_store["k2"] # <<>>
          /\ \E i \in 1..Len(mem_store["k1"]) : mem_store["k1"][i] <= window_start(chk[p].now)

====
